---- MODULE Spec2Model ----
(***************************************************************************)
(* Verification model of actuary-bot: the consent protocol                 *)
(* (constitutional/consent-protocol.js), the Five Yamas gates              *)
(* (constitutional/yamas-gates.js), the store (storage/actuary-store.js),  *)
(* the HTTP handlers (server.js), the transport seal and the keypair it    *)
(* loads when the process starts (middleware.cjs), the chain of custody    *)
(* (chain.cjs) and the advisor session (advisor/advisor-chat.js,           *)
(* advisor/gate-explainer.js).                                             *)
(*                                                                         *)
(* Representation.                                                         *)
(*   JavaScript values are records [t, n, s]: t is the typeof tag, n the   *)
(*   numeric payload, s the string payload (a sequence of symbols).        *)
(*   A string is a sequence of symbols; a symbol is an indivisible run of  *)
(*   characters (" " is one whitespace character, "nz" a lower-case word,  *)
(*   "NZ" the same word in upper case).                                    *)
(*   Reals are fixed point and exact: confidence in 1/1000, gate scores    *)
(*   in 1/10000, the weighted composite in 1/1000000, the rounded          *)
(*   constitutional_score in 1/1000.  NaN is the score value NaN.          *)
(*   A thrown exception is a result record with threw = TRUE; callers      *)
(*   propagate it unless the source has a try/catch.                       *)
(*   Field values are what a parsed JSON body can hold: absent, string,    *)
(*   number, boolean, and the object {"toString": 1}, which has no         *)
(*   primitive value (ToString on it raises TypeError).                    *)
(***************************************************************************)
EXTENDS Integers, Sequences, FiniteSets, TLC

(***************************************************************************)
(* Bounds                                                                  *)
(***************************************************************************)
MaxLen == 2

\* number of requests the server receives in one behaviour
MaxRequests == 2

\* number of responses sealed in one behaviour
MaxSeals == 3

\* last value of the millisecond clock
MaxClock == 1

\* number of services in a chain of custody
MaxHops == 3

\* number of times the process is started in one behaviour
MaxStarts == 2

\* number of responses sealed between two starts of the process
MaxSealsPerStart == 1

\* number of chat turns in one advisor session
MaxTurns == 3

(***************************************************************************)
(* JavaScript values                                                       *)
(***************************************************************************)
UNDEF == [t |-> "undefined", n |-> 0, s |-> <<>>]

Num(x) == [t |-> "number", n |-> x, s |-> <<>>]

NaNValue == [t |-> "number", n |-> 0, s |-> <<"NaN">>]

Str(q) == [t |-> "string", n |-> 0, s |-> q]

Bool(b) == [t |-> "boolean", n |-> IF b THEN 1 ELSE 0, s |-> <<>>]

NULL == [t |-> "null", n |-> 0, s |-> <<>>]

\* v ?? d
Coalesce(v, d) == IF v.t = "undefined" \/ v.t = "null" THEN d ELSE v

\* the parsed JSON object {"toString": 1}: its own toString is not callable and
\* Object.prototype.valueOf returns the object, so ToPrimitive raises TypeError
UnconvertibleObject == [t |-> "object", n |-> 0, s |-> <<"{\"toString\":1}">>]

\* String(v) and `${v}` raise TypeError
ToStringThrows(v) == v.t = "object"

IsNaN(v) == v.t = "number" /\ v.s = <<"NaN">>

\* ToBoolean: undefined, "", 0, NaN and false are falsy
Truthy(v) ==
    CASE v.t = "undefined" -> FALSE
      [] v.t = "null"      -> FALSE
      [] v.t = "string"    -> Len(v.s) > 0
      [] v.t = "number"    -> ~IsNaN(v) /\ v.n # 0
      [] v.t = "boolean"   -> v.n = 1
      [] OTHER             -> TRUE

\* destructuring default: applies to undefined only
Default(v, d) == IF v.t = "undefined" THEN d ELSE v

\* relational comparison with a numeric literal: ToNumber(v) < k, false for NaN.
\* scale is the fixed-point unit of a number in this position.
ToNumberIsNaN(v) == IsNaN(v) \/ v.t = "undefined" \/ (v.t = "string" /\ Len(v.s) > 0)

ToNumber(v) == IF v.t = "number" \/ v.t = "boolean" THEN v.n ELSE 0

LessThan(v, k) == ~ToNumberIsNaN(v) /\ ToNumber(v) < k

GreaterThan(v, k) == ~ToNumberIsNaN(v) /\ ToNumber(v) > k

(***************************************************************************)
(* Strings: String.prototype.trim and toLowerCase over symbols             *)
(***************************************************************************)
IsSpace(sym) == sym = " "

toLowerCaseSym(sym) ==
    CASE sym = "NZ"                   -> "nz"
      [] sym = "POPULATION_MORTALITY" -> "population_mortality"
      [] sym = "NZ-SMOKERS"           -> "nz-smokers"
      [] sym = "CLIN-1"               -> "clin-1"
      [] OTHER                        -> sym

toLowerCase(q) == [i \in 1..Len(q) |-> toLowerCaseSym(q[i])]

RECURSIVE trimStart(_)
trimStart(q) == IF q # <<>> /\ IsSpace(Head(q)) THEN trimStart(Tail(q)) ELSE q

RECURSIVE trimEnd(_)
trimEnd(q) ==
    IF q # <<>> /\ IsSpace(q[Len(q)]) THEN trimEnd(SubSeq(q, 1, Len(q) - 1)) ELSE q

trim(q) == trimEnd(trimStart(q))

startsWith(q, prefix) == Len(q) >= 1 /\ q[1] = prefix

(***************************************************************************)
(* consent-protocol.js                                                     *)
(***************************************************************************)
\* sha256(...).digest('hex').slice(0, 32), taken as collision-free: the digest
\* is the tagged preimage.
sha256hex32(canonical) == <<"sha256[">> \o canonical \o <<"]">>

\* JSON.stringify({cohort, scope, clinician_id}) of three strings
JSONstringify(cohort, scope, clinician_id) ==
    <<"{\"cohort\":">> \o cohort \o <<",\"scope\":">> \o scope
        \o <<",\"clinician_id\":">> \o clinician_id \o <<"}">>

Returned(v) == [threw |-> FALSE, value |-> v, message |-> ""]

Thrown(msg) == [threw |-> TRUE, value |-> UNDEF, message |-> msg]

\* variant: clinician_id is lower-cased like the other two fields
generateConsentRecordId_lowerClinician(cohort, scope, clinician_id) ==
    IF ~Truthy(cohort) \/ ~Truthy(scope) \/ ~Truthy(clinician_id)
    THEN Thrown("CONSENT_ERROR: cohort, scope, and clinician_id are all required")
    ELSE IF ToStringThrows(cohort) \/ ToStringThrows(scope) \/ ToStringThrows(clinician_id)
    THEN Thrown("Cannot convert object to primitive value")
    ELSE LET canonical == JSONstringify(toLowerCase(trim(cohort.s)),
                                        toLowerCase(trim(scope.s)),
                                        toLowerCase(trim(clinician_id.s)))
         IN  Returned(Str(<<"CR-">> \o sha256hex32(canonical)))

\* variant: the canonical form holds cohort and scope as an unordered pair
generateConsentRecordId_unorderedFields(cohort, scope, clinician_id) ==
    IF ~Truthy(cohort) \/ ~Truthy(scope) \/ ~Truthy(clinician_id)
    THEN Thrown("CONSENT_ERROR: cohort, scope, and clinician_id are all required")
    ELSE IF ToStringThrows(cohort) \/ ToStringThrows(scope) \/ ToStringThrows(clinician_id)
    THEN Thrown("Cannot convert object to primitive value")
    ELSE LET canonical == <<{toLowerCase(trim(cohort.s)), toLowerCase(trim(scope.s))}>>
                              \o <<",\"clinician_id\":">> \o trim(clinician_id.s)
         IN  Returned(Str(<<"CR-">> \o sha256hex32(canonical)))

generateConsentRecordId(cohort, scope, clinician_id) ==
    IF ~Truthy(cohort) \/ ~Truthy(scope) \/ ~Truthy(clinician_id)
    THEN Thrown("CONSENT_ERROR: cohort, scope, and clinician_id are all required")
    ELSE IF ToStringThrows(cohort) \/ ToStringThrows(scope) \/ ToStringThrows(clinician_id)
    THEN Thrown("Cannot convert object to primitive value")
    ELSE LET canonical == JSONstringify(toLowerCase(trim(cohort.s)),
                                        toLowerCase(trim(scope.s)),
                                        trim(clinician_id.s))
         IN  Returned(Str(<<"CR-">> \o sha256hex32(canonical)))

\* variant: the recomputation skips normalisation and hashes the raw triple
validateConsentRecord_rawRecompute(consent_record_id, cohort, scope, clinician_id) ==
    IF ~Truthy(consent_record_id) \/ consent_record_id.t # "string"
    THEN [threw |-> FALSE, valid |-> FALSE,
          reason |-> <<"CONSENT_INVALID: consent_record_id is missing or not a string">>]
    ELSE IF ~startsWith(consent_record_id.s, "CR-")
    THEN [threw |-> FALSE, valid |-> FALSE,
          reason |-> <<"CONSENT_INVALID: consent_record_id must begin with CR-">>]
    ELSE IF ~Truthy(cohort) \/ ~Truthy(scope) \/ ~Truthy(clinician_id)
    THEN [threw |-> FALSE, valid |-> FALSE,
          reason |-> <<"CONSENT_INVALID: ",
                       "CONSENT_ERROR: cohort, scope, and clinician_id are all required">>]
    ELSE IF ToStringThrows(cohort) \/ ToStringThrows(scope) \/ ToStringThrows(clinician_id)
    THEN [threw |-> FALSE, valid |-> FALSE,
          reason |-> <<"CONSENT_INVALID: ", "Cannot convert object to primitive value">>]
    ELSE IF consent_record_id
              # Str(<<"CR-">> \o sha256hex32(JSONstringify(cohort.s, scope.s, clinician_id.s)))
    THEN [threw |-> FALSE, valid |-> FALSE,
          reason |-> <<"CONSENT_INVALID: consent_record_id does not match cohort+scope+clinician_id hash">>]
    ELSE [threw |-> FALSE, valid |-> TRUE, reason |-> <<"CONSENT_VALID">>]

\* variant: no try/catch around the recomputation, the CONSENT_ERROR escapes
validateConsentRecord_noCatch(consent_record_id, cohort, scope, clinician_id) ==
    IF ~Truthy(consent_record_id) \/ consent_record_id.t # "string"
    THEN [threw |-> FALSE, valid |-> FALSE,
          reason |-> <<"CONSENT_INVALID: consent_record_id is missing or not a string">>]
    ELSE IF ~startsWith(consent_record_id.s, "CR-")
    THEN [threw |-> FALSE, valid |-> FALSE,
          reason |-> <<"CONSENT_INVALID: consent_record_id must begin with CR-">>]
    ELSE LET expected == generateConsentRecordId(cohort, scope, clinician_id)
         IN  IF expected.threw
             THEN [threw |-> TRUE, message |-> expected.message]
             ELSE IF consent_record_id # expected.value
             THEN [threw |-> FALSE, valid |-> FALSE,
                   reason |-> <<"CONSENT_INVALID: consent_record_id does not match cohort+scope+clinician_id hash">>]
             ELSE [threw |-> FALSE, valid |-> TRUE, reason |-> <<"CONSENT_VALID">>]

validateConsentRecord(consent_record_id, cohort, scope, clinician_id) ==
    IF ~Truthy(consent_record_id) \/ consent_record_id.t # "string"
    THEN [threw |-> FALSE, valid |-> FALSE,
          reason |-> <<"CONSENT_INVALID: consent_record_id is missing or not a string">>]
    ELSE IF ~startsWith(consent_record_id.s, "CR-")
    THEN [threw |-> FALSE, valid |-> FALSE,
          reason |-> <<"CONSENT_INVALID: consent_record_id must begin with CR-">>]
    ELSE LET expected == generateConsentRecordId(cohort, scope, clinician_id)
         IN  IF expected.threw
             THEN [threw |-> FALSE, valid |-> FALSE,
                   reason |-> <<"CONSENT_INVALID: ", expected.message>>]
             ELSE IF consent_record_id # expected.value
             THEN [threw |-> FALSE, valid |-> FALSE,
                   reason |-> <<"CONSENT_INVALID: consent_record_id does not match cohort+scope+clinician_id hash">>]
             ELSE [threw |-> FALSE, valid |-> TRUE, reason |-> <<"CONSENT_VALID">>]

\* `${v}` in a template literal
TemplateString(v) ==
    CASE v.t = "string"    -> v.s
      [] v.t = "undefined" -> <<"undefined">>
      [] v.t = "null"      -> <<"null">>
      [] v.t = "boolean"   -> IF v.n = 1 THEN <<"true">> ELSE <<"false">>
      [] OTHER             -> <<v.n>>

\* variant: the summary also names the clinician
consentSummary_withClinician(params) ==
    IF ToStringThrows(params.consent_record_id) \/ ToStringThrows(params.cohort)
           \/ ToStringThrows(params.scope)
    THEN Thrown("Cannot convert object to primitive value")
    ELSE Returned(Str(<<"consent=">> \o TemplateString(params.consent_record_id)
                      \o <<" cohort=">> \o TemplateString(params.cohort)
                      \o <<" scope=">> \o TemplateString(params.scope)
                      \o <<" clinician=">> \o TemplateString(params.clinician_id)))

\* consentSummary({ consent_record_id, cohort, scope }): params is the argument
\* object, whose other properties the destructuring ignores
consentSummary(params) ==
    IF ToStringThrows(params.consent_record_id) \/ ToStringThrows(params.cohort)
           \/ ToStringThrows(params.scope)
    THEN Thrown("Cannot convert object to primitive value")
    ELSE Returned(Str(<<"consent=">> \o TemplateString(params.consent_record_id)
                      \o <<" cohort=">> \o TemplateString(params.cohort)
                      \o <<" scope=">> \o TemplateString(params.scope)))

(***************************************************************************)
(* yamas-gates.js: gate results                                            *)
(***************************************************************************)
\* Math.min(1.0, NaN) and every arithmetic operation on NaN give NaN
NaN == -1

Times(w, x) == IF x = NaN THEN NaN ELSE w * x

Plus(x, y) == IF x = NaN \/ y = NaN THEN NaN ELSE x + y

AtLeast(x, k) == x # NaN /\ x >= k

Min(x, y) == IF x = NaN \/ y = NaN THEN NaN ELSE IF x < y THEN x ELSE y

\* Math.round(x * 1000) / 1000 for x >= 0 in 1/1000000, result in 1/1000
Round3(x) == IF x = NaN THEN NaN ELSE (x + 500) \div 1000

GateResult(pass, score, text, arg) ==
    [threw |-> FALSE, pass |-> pass, score |-> score,
     reason |-> [text |-> text, arg |-> arg]]

\* an exception raised while the gate runs: no result is returned
GateThrown(msg) ==
    [threw |-> TRUE, pass |-> FALSE, score |-> 0,
     reason |-> [text |-> <<msg>>, arg |-> UNDEF]]

(***************************************************************************)
(* Gate 1 - AHIMSA                                                         *)
(***************************************************************************)
FORBIDDEN_TYPES ==
    { Str(<<"genetic_exclusion">>), Str(<<"racial_profiling">>), Str(<<"disability_penalty">>) }

\* variant: the large-population block starts at 10000 itself
ahimsaGate_blockAtThreshold(ctx) ==
    LET equity_flag     == ctx.equity_flag
        population_size == Default(ctx.population_size, Num(0))
        patient_facing  == Default(ctx.patient_facing, Bool(FALSE))
        assessment_type == Default(ctx.assessment_type, Str(<<>>))
    IN  IF assessment_type \in FORBIDDEN_TYPES
        THEN GateResult(FALSE, 0,
                 <<"AHIMSA_VIOLATION: assessment_type '", "' is prohibited">>, assessment_type)
        ELSE IF ~LessThan(population_size, 10000) /\ ~ToNumberIsNaN(population_size)
                /\ ~Truthy(equity_flag)
        THEN GateResult(FALSE, 0,
                 <<"AHIMSA_VIOLATION: large-population assessment requires equity_flag">>, UNDEF)
        ELSE GateResult(TRUE, IF Truthy(patient_facing) THEN 8000 ELSE 9500,
                 <<"AHIMSA_PASS">>, UNDEF)

ahimsaGate(ctx) ==
    LET equity_flag     == ctx.equity_flag
        population_size == Default(ctx.population_size, Num(0))
        patient_facing  == Default(ctx.patient_facing, Bool(FALSE))
        assessment_type == Default(ctx.assessment_type, Str(<<>>))
    IN  IF assessment_type \in FORBIDDEN_TYPES
        THEN GateResult(FALSE, 0,
                 <<"AHIMSA_VIOLATION: assessment_type '", "' is prohibited">>, assessment_type)
        ELSE IF GreaterThan(population_size, 10000) /\ ~Truthy(equity_flag)
        THEN GateResult(FALSE, 0,
                 <<"AHIMSA_VIOLATION: large-population assessment requires equity_flag">>, UNDEF)
        ELSE GateResult(TRUE, IF Truthy(patient_facing) THEN 8000 ELSE 9500,
                 <<"AHIMSA_PASS">>, UNDEF)

(***************************************************************************)
(* Gate 2 - SATYA                                                          *)
(***************************************************************************)
satyaGate(ctx) ==
    LET confidence    == Default(ctx.confidence, Num(0))
        data_quality  == Default(ctx.data_quality, Str(<<"unknown">>))
        model_version == ctx.model_version
    IN  IF confidence.t # "number" \/ LessThan(confidence, 0) \/ GreaterThan(confidence, 1000)
        THEN GateResult(FALSE, 0,
                 <<"SATYA_VIOLATION: confidence must be a number in [0, 1]">>, UNDEF)
        ELSE IF LessThan(confidence, 600)
        THEN GateResult(FALSE, 0,
                 <<"SATYA_VIOLATION: confidence ", " < minimum 0.60">>, confidence)
        ELSE IF data_quality = Str(<<"unknown">>) \/ data_quality = Str(<<"poor">>)
        THEN GateResult(FALSE, 0,
                 <<"SATYA_VIOLATION: data_quality '",
                   "' is insufficient for actuarial assessment">>, data_quality)
        ELSE IF ~Truthy(model_version)
        THEN GateResult(FALSE, 0,
                 <<"SATYA_VIOLATION: model_version must be declared (prevents hidden model drift)">>,
                 UNDEF)
        ELSE GateResult(TRUE,
                 Min(10000, IF IsNaN(confidence) THEN NaN ELSE confidence.n * 11),
                 <<"SATYA_PASS">>, UNDEF)

(***************************************************************************)
(* Gate 3 - ASTEYA                                                         *)
(***************************************************************************)
asteyaGate(ctx) ==
    IF ~Truthy(ctx.consent_record_id)
    THEN GateResult(FALSE, 0,
             <<"ASTEYA_VIOLATION: consent_record_id is required - no analysis without consent">>,
             UNDEF)
    ELSE LET validation == validateConsentRecord(ctx.consent_record_id,
                                                 ctx.cohort, ctx.scope, ctx.clinician_id)
         IN  IF validation.threw
             THEN GateThrown(validation.message)
             ELSE IF ~validation.valid
             THEN GateResult(FALSE, 0, <<"ASTEYA_VIOLATION: ">> \o validation.reason, UNDEF)
             ELSE GateResult(TRUE, 9500, <<"ASTEYA_PASS">>, UNDEF)

(***************************************************************************)
(* Gate 4 - BRAHMACHARYA                                                   *)
(***************************************************************************)
VALIDATED_SCOPES ==
    { Str(<<"life_insurance_pricing">>), Str(<<"health_insurance_risk">>),
      Str(<<"reinsurance_modelling">>), Str(<<"population_mortality">>),
      Str(<<"drug_discovery_integration">>), Str(<<"dr_bot_integration">>) }

\* variant: a request without jurisdiction is refused
brahmaacharyaGate_jurisdictionRequired(ctx) ==
    IF ~Truthy(ctx.scope)
    THEN GateResult(FALSE, 0, <<"BRAHMACHARYA_VIOLATION: scope is required">>, UNDEF)
    ELSE IF ctx.scope \notin VALIDATED_SCOPES
    THEN IF ToStringThrows(ctx.scope)
         THEN GateThrown("TypeError: Cannot convert object to primitive value")
         ELSE GateResult(FALSE, 0,
                  <<"BRAHMACHARYA_VIOLATION: scope '", "' is not in validated scope list. ">>,
                  ctx.scope)
    ELSE IF ~Truthy(ctx.regulatory_jurisdiction)
    THEN GateResult(FALSE, 0, <<"BRAHMACHARYA_VIOLATION: jurisdiction is required">>, UNDEF)
    ELSE GateResult(TRUE, 9000, <<"BRAHMACHARYA_PASS">>, UNDEF)

brahmaacharyaGate(ctx) ==
    IF ~Truthy(ctx.scope)
    THEN GateResult(FALSE, 0, <<"BRAHMACHARYA_VIOLATION: scope is required">>, UNDEF)
    ELSE IF ctx.scope \notin VALIDATED_SCOPES
    THEN IF ToStringThrows(ctx.scope)
         THEN GateThrown("TypeError: Cannot convert object to primitive value")
         ELSE GateResult(FALSE, 0,
                  <<"BRAHMACHARYA_VIOLATION: scope '", "' is not in validated scope list. ">>,
                  ctx.scope)
    ELSE GateResult(TRUE, IF Truthy(ctx.regulatory_jurisdiction) THEN 9000 ELSE 7000,
             <<"BRAHMACHARYA_PASS">>, UNDEF)

(***************************************************************************)
(* Gate 5 - APARIGRAHA                                                     *)
(***************************************************************************)
\* variant: the ensemble score is computed before the block and returned with it
aparigrahaGate_scoreOnBlock(ctx) ==
    LET model_count  == Default(ctx.model_count, Num(1))
        dissent_flag == Default(ctx.dissent_flag, Bool(FALSE))
        score == IF ~LessThan(model_count, 3) /\ ~ToNumberIsNaN(model_count) THEN 9500
                 ELSE IF Truthy(dissent_flag) THEN 8000 ELSE 7200
    IN  IF LessThan(model_count, 2) /\ ~Truthy(dissent_flag)
        THEN GateResult(FALSE, score,
                 <<"APARIGRAHA_VIOLATION: assessments must use >=2 models or carry explicit dissent_flag=true">>,
                 UNDEF)
        ELSE GateResult(TRUE, score, <<"APARIGRAHA_PASS">>, UNDEF)

aparigrahaGate(ctx) ==
    LET model_count  == Default(ctx.model_count, Num(1))
        dissent_flag == Default(ctx.dissent_flag, Bool(FALSE))
    IN  IF LessThan(model_count, 2) /\ ~Truthy(dissent_flag)
        THEN GateResult(FALSE, 0,
                 <<"APARIGRAHA_VIOLATION: assessments must use >=2 models or carry explicit dissent_flag=true">>,
                 UNDEF)
        ELSE GateResult(TRUE,
                 IF ~LessThan(model_count, 3) /\ ~ToNumberIsNaN(model_count) THEN 9500
                 ELSE IF Truthy(dissent_flag) THEN 8000 ELSE 7200,
                 <<"APARIGRAHA_PASS">>, UNDEF)

(***************************************************************************)
(* Composite gate                                                          *)
(***************************************************************************)
GateNames == <<"ahimsa", "satya", "asteya", "brahmacharya", "aparigraha">>

\* variant: entries are collected in reverse gate order
RECURSIVE blockedEntries_reversed(_, _)
blockedEntries_reversed(scores, i) ==
    IF i > Len(GateNames) THEN <<>>
    ELSE LET name == GateNames[i]
             rest == blockedEntries_reversed(scores, i + 1)
         IN  IF ~scores[name].pass
             THEN rest \o <<[gate |-> name, reason |-> scores[name].reason]>>
             ELSE rest

\* Object.entries(scores).filter(([, r]) => !r.pass).map(([name, r]) => `${name}: ${r.reason}`)
RECURSIVE blockedEntries(_, _)
blockedEntries(scores, i) ==
    IF i > Len(GateNames) THEN <<>>
    ELSE LET name == GateNames[i]
             rest == blockedEntries(scores, i + 1)
         IN  IF ~scores[name].pass
             THEN <<[gate |-> name, reason |-> scores[name].reason]>> \o rest
             ELSE rest

\* variant: the Asteya and Brahmacharya weights are exchanged
weightedSum_swappedWeights(scores) ==
    Plus(Plus(Plus(Plus(Times(25, scores.ahimsa.score),
                        Times(25, scores.satya.score)),
                   Times(20, scores.asteya.score)),
              Times(15, scores.brahmacharya.score)),
         Times(15, scores.aparigraha.score))

weightedSum(scores) ==
    Plus(Plus(Plus(Plus(Times(25, scores.ahimsa.score),
                        Times(25, scores.satya.score)),
                   Times(15, scores.asteya.score)),
              Times(20, scores.brahmacharya.score)),
         Times(15, scores.aparigraha.score))

\* variant: the Brahmacharya veto is lost and the weighted sum is always used
constitutionalScore_noVeto(scores) == weightedSum(scores)

\* variant: any blocking gate zeroes the composite
constitutionalScore_zeroOnAnyBlock(scores) ==
    IF \E i \in 1..Len(GateNames) : ~scores[GateNames[i]].pass THEN 0 ELSE weightedSum(scores)

\* Brahmacharya is a hard-block: if it fails, composite is 0
constitutionalScore(scores) ==
    LET brahmaAuto == ~scores.brahmacharya.pass
    IN  IF brahmaAuto THEN 0 ELSE weightedSum(scores)

\* variant: the verdict is decided by the score threshold alone
overallPass_scoreOnly(blocked_by, constitutional_score) ==
    AtLeast(constitutional_score, 600000)

overallPass(blocked_by, constitutional_score) ==
    blocked_by = <<>> /\ AtLeast(constitutional_score, 600000)

yamasEntry(r) == [score |-> r.score, pass |-> r.pass, reason |-> r.reason]

\* gate_timestamp (the wall clock) is left out of receipt_fields
runAllGates(ctx) ==
    LET ahimsa       == ahimsaGate(ctx)
        satya        == satyaGate(ctx)
        asteya       == asteyaGate(ctx)
        brahmacharya == brahmaacharyaGate(ctx)
        aparigraha   == aparigrahaGate(ctx)
        scores == [ahimsa |-> ahimsa, satya |-> satya, asteya |-> asteya,
                   brahmacharya |-> brahmacharya, aparigraha |-> aparigraha]
        blocked_by == blockedEntries(scores, 1)
        constitutional_score == constitutionalScore(scores)
    IN  IF \E i \in 1..Len(GateNames) : scores[GateNames[i]].threw
        THEN [threw |-> TRUE]
        ELSE [threw |-> FALSE,
              pass |-> overallPass(blocked_by, constitutional_score),
              constitutional_score |-> Round3(constitutional_score),
              yamas |-> [name \in DOMAIN scores |-> yamasEntry(scores[name])],
              blocked_by |-> blocked_by,
              receipt_fields |-> [constitutional_score |-> constitutional_score,
                                  brahmacharya_auto_reject |-> ~brahmacharya.pass]]

(***************************************************************************)
(* storage/actuary-store.js: the three tables are sequences of rows        *)
(***************************************************************************)
\* JSON.stringify of an object: properties holding undefined are left out
JSONstringifyObject(obj) == [k \in {f \in DOMAIN obj : obj[f] # UNDEF} |-> obj[k]]

\* sha256(String(clinician_id)).digest('hex').slice(0, 16), collision-free
clinicianHash(clinician_id) == Str(<<"sha256[">> \o clinician_id.s \o <<"]">>)

\* variant: the request body is not stored with the assessment
insertRiskAssessment_noPayload(table, a) ==
    Append(table,
        [consent_record_id    |-> a.consent_record_id,
         cohort               |-> a.cohort,
         scope                |-> a.scope,
         constitutional_score |-> a.constitutional_score,
         pass                 |-> IF a.pass THEN 1 ELSE 0,
         yamas_json           |-> a.yamas,
         payload_json         |-> NULL,
         source               |-> a.source])

insertRiskAssessment(table, a) ==
    Append(table,
        [consent_record_id    |-> a.consent_record_id,
         cohort               |-> a.cohort,
         scope                |-> a.scope,
         constitutional_score |-> a.constitutional_score,
         pass                 |-> IF a.pass THEN 1 ELSE 0,
         yamas_json           |-> a.yamas,
         payload_json         |-> JSONstringifyObject(a.payload),
         source               |-> a.source])

\* INSERT OR REPLACE on the UNIQUE consent_record_id: a row with the same
\* anchor is deleted, the new row is added
upsertConsentRecord(table, a) ==
    Append(SelectSeq(table, LAMBDA row : row.consent_record_id # a.consent_record_id),
        [consent_record_id |-> a.consent_record_id,
         cohort            |-> a.cohort,
         scope             |-> a.scope,
         clinician_hash    |-> clinicianHash(a.clinician_id)])

logConstitutionalVerdict(table, a) ==
    Append(table,
        [endpoint             |-> a.endpoint,
         consent_record_id    |-> Coalesce(a.consent_record_id, NULL),
         constitutional_score |-> a.constitutional_score,
         pass                 |-> IF a.pass THEN 1 ELSE 0,
         blocked_by_json      |-> a.blocked_by,
         yamas_json           |-> a.yamas])

(***************************************************************************)
(* server.js: POST /api/v1/assess builds the gate context from the body    *)
(***************************************************************************)
assessCtx(body) ==
    [ equity_flag             |-> UNDEF,
      consent_record_id       |-> body.consent_record_id,
      cohort                  |-> body.cohort,
      scope                   |-> body.scope,
      clinician_id            |-> body.clinician_id,
      confidence              |-> Default(body.confidence, Num(750)),
      data_quality            |-> Default(body.data_quality, Str(<<"good">>)),
      model_version           |-> body.model_version,
      model_count             |-> Default(body.model_count, Num(2)),
      population_size         |-> Default(body.population_size, Num(0)),
      patient_facing          |-> Default(body.patient_facing, Bool(FALSE)),
      assessment_type         |-> Default(body.assessment_type, Str(<<"population_mortality">>)),
      regulatory_jurisdiction |-> body.regulatory_jurisdiction,
      dissent_flag            |-> Default(body.dissent_flag, Bool(FALSE)) ]

\* adversarial_score != null ? Math.max(0, 1 - adversarial_score) : 0.70, in
\* 1/1000; 1 - x is NaN when x has no numeric value, and Math.max(0, NaN) is NaN
derivedConfidence(adversarial_score) ==
    IF adversarial_score.t \in {"undefined", "null"} THEN Num(700)
    ELSE IF ToNumberIsNaN(adversarial_score) THEN NaNValue
    ELSE LET x == IF adversarial_score.t = "boolean"
                  THEN 1000 * adversarial_score.n ELSE adversarial_score.n
         IN  Num(IF 1000 - x > 0 THEN 1000 - x ELSE 0)

\* server.js: POST /api/v1/dr_bot_ingest builds the gate context from the body
drBotCtx(body) ==
    [ equity_flag             |-> UNDEF,
      consent_record_id       |-> body.consent_record_id,
      cohort                  |-> body.cohort,
      scope                   |-> Coalesce(body.scope, Str(<<"dr_bot_integration">>)),
      clinician_id            |-> body.clinician_id,
      confidence              |-> derivedConfidence(body.adversarial_score),
      data_quality            |-> Str(<<"good">>),
      model_version           |-> Str(<<"dr-bot-v1">>),
      model_count             |-> Num(2),
      population_size         |-> UNDEF,
      patient_facing          |-> UNDEF,
      assessment_type         |-> Str(<<"population_mortality">>),
      regulatory_jurisdiction |-> UNDEF,
      dissent_flag            |-> Bool(TRUE) ]

(***************************************************************************)
(* kaitiaki/chain.cjs: chain of custody                                    *)
(* A receipt object is a record with t = "object" whose other fields are   *)
(* JavaScript values; an absent property holds UNDEF.                      *)
(***************************************************************************)
ReceiptObject(receipt_id, chain_depth, chain_root) ==
    [t |-> "object", receipt_id |-> receipt_id, chain_depth |-> chain_depth,
     chain_root |-> chain_root]

\* typeof v === 'string' && v.trim() !== ''
NonBlankString(v) == v.t = "string" /\ trim(v.s) # <<>>

\* variant: a full parent record is linked like a bare id, its depth and root
\* are not propagated
chainReceipt_parentAsBareId(currentReceipt, parentReceiptOrId) ==
    IF currentReceipt.t # "object" \/ currentReceipt.receipt_id.t # "string"
    THEN Thrown("currentReceipt must be an object with a string receipt_id")
    ELSE LET ownId    == currentReceipt.receipt_id
             isObject == parentReceiptOrId.t = "object"
             isString == ~isObject /\ NonBlankString(parentReceiptOrId)
             parentId == IF isObject THEN Coalesce(parentReceiptOrId.receipt_id, NULL)
                         ELSE IF isString THEN parentReceiptOrId ELSE NULL
             parentDepth == 0
             parentRoot  == parentId
             hasParent == Truthy(parentId)
         IN  Returned([t |-> "object",
                       receipt_id        |-> ownId,
                       parent_receipt_id |-> IF hasParent THEN parentId ELSE NULL,
                       chain_depth       |-> IF hasParent THEN Num(parentDepth + 1) ELSE Num(0),
                       chain_root        |-> IF hasParent THEN parentRoot ELSE ownId])

chainReceipt(currentReceipt, parentReceiptOrId) ==
    IF currentReceipt.t # "object" \/ currentReceipt.receipt_id.t # "string"
    THEN Thrown("currentReceipt must be an object with a string receipt_id")
    ELSE LET ownId    == currentReceipt.receipt_id
             isObject == parentReceiptOrId.t = "object"
             isString == ~isObject /\ NonBlankString(parentReceiptOrId)
             parentId == IF isObject THEN Coalesce(parentReceiptOrId.receipt_id, NULL)
                         ELSE IF isString THEN parentReceiptOrId ELSE NULL
             parentDepth == IF isObject /\ parentReceiptOrId.chain_depth.t = "number"
                            THEN parentReceiptOrId.chain_depth.n ELSE 0
             parentRoot  == IF isObject THEN Coalesce(parentReceiptOrId.chain_root, parentId)
                            ELSE parentId
             hasParent == Truthy(parentId)
         IN  Returned([t |-> "object",
                       receipt_id        |-> ownId,
                       parent_receipt_id |-> IF hasParent THEN parentId ELSE NULL,
                       chain_depth       |-> IF hasParent THEN Num(parentDepth + 1) ELSE Num(0),
                       chain_root        |-> IF hasParent THEN parentRoot ELSE ownId])

\* req is [body |-> [parent_receipt_id |-> v], headers |-> [parent |-> w]],
\* headers.parent standing for headers['x-kaitiaki-parent-receipt']
extractParentReceipt(req) ==
    IF NonBlankString(req.body.parent_receipt_id) THEN req.body.parent_receipt_id
    ELSE IF NonBlankString(req.headers.parent) THEN req.headers.parent
    ELSE NULL

\* buildChainHeaders(receiptId)['X-Kaitiaki-Parent-Receipt']
buildChainHeaders(receiptId) ==
    IF ~NonBlankString(receiptId)
    THEN Thrown("receiptId must be a non-empty string")
    ELSE Returned(receiptId)

(***************************************************************************)
(* kaitiaki/middleware.cjs: the transport seal                             *)
(* Digests are opaque values [sha256 |-> preimage]; a response payload is  *)
(* [kind, json]: kind "object" is a plain object, "array" an array,        *)
(* "circular" an object JSON.stringify cannot serialise.                   *)
(***************************************************************************)
sha256(data) == [sha256 |-> data]

\* BigInt('0x' + hex.slice(0, 16))
hexToBigInt(hex) == [first16 |-> hex]

\* x = (2a + b) mod P and y = (a + b) mod P determine (a, b): both stay
\* under P, so the map is one-to-one on the 64-bit prefixes
arnoldTransform(aHash, bHash) ==
    sha256(<<"arnold", hexToBigInt(aHash), hexToBigInt(bHash)>>)

PlainObjectData == [kind |-> "object", json |-> "{\"status\":\"ok\"}"]

ArrayData == [kind |-> "array", json |-> "[1,2]"]

CircularData == [kind |-> "circular", json |-> ""]

\* the two bytes of randomBytes(2), as hex
RandomHex == {"0000", "ffff"}

\* the key file as found on disk: missing, unreadable (read or parse fails),
\* or stored with the keypair it holds
MissingKeyFile == [state |-> "missing", publicKey |-> "", secretKeyValid |-> FALSE]

UnreadableKeyFile == [state |-> "unreadable", publicKey |-> "", secretKeyValid |-> FALSE]

StoredKeyFile(kp) ==
    [state |-> "stored", publicKey |-> kp.publicKey, secretKeyValid |-> kp.secretKeyValid]

\* loadOrCreateKeypair(): generated is the result of nacl.sign.keyPair(),
\* writable whether writeFileSync succeeds; every failure is caught and
\* nothing is logged.  logged is what the function writes to the console.
loadOrCreateKeypair(file, generated, writable) ==
    IF file.state = "stored"
    THEN [keypair |-> [publicKey |-> file.publicKey, secretKeyValid |-> file.secretKeyValid],
          file    |-> file,
          logged  |-> <<>>]
    ELSE [keypair |-> generated,
          file    |-> IF writable THEN StoredKeyFile(generated) ELSE file,
          logged  |-> <<>>]

PUBLIC_KEY(keypair) == keypair.publicKey

\* sha256('turangawaewae_transport_' + PUBLIC_KEY.slice(0, 16)): literal, key, slice
GENESIS_HASH(keypair) ==
    sha256(<<"turangawaewae_transport_", PUBLIC_KEY(keypair), "slice(0, 16)">>)

NoReceipt == [none |-> TRUE]

\* variant: prevPrevState is not rolled forward and stays at its old value
sealTransport_noRollForward(payload, domain, ts, rand, chain, keypair) ==
    IF payload.kind = "circular"
    THEN [threw |-> TRUE, message |-> "Converting circular structure to JSON",
          receipt |-> NoReceipt, chain |-> chain]
    ELSE IF ~keypair.secretKeyValid
    THEN [threw |-> TRUE, message |-> "bad secret key size",
          receipt |-> NoReceipt, chain |-> chain]
    ELSE LET receiptId    == <<"KT-", ts, "-", rand>>
             cotHash      == sha256(payload.json)
             parseHash    == sha256(<<domain, "|", ts>>)
             artifactHash == sha256(<<cotHash, parseHash>>)
             signature    == [signed |-> artifactHash, by |-> PUBLIC_KEY(keypair)]
             arnold       == arnoldTransform(chain.prevPrevState, chain.prevState)
             state        == sha256(<<artifactHash, arnold>>)
             posc         == [state          |-> state,
                              previous_state |-> chain.prevState,
                              chain_position |-> chain.chainPosition + 1,
                              genesis_hash   |-> GENESIS_HASH(keypair)]
         IN  [threw   |-> FALSE,
              message |-> "",
              receipt |-> [receipt_id |-> receiptId,
                           timestamp  |-> ts,
                           public_key |-> PUBLIC_KEY(keypair),
                           helix      |-> [artifact_hash |-> artifactHash,
                                           signature     |-> signature],
                           posc       |-> posc],
              chain   |-> [chainPosition |-> chain.chainPosition + 1,
                           prevState     |-> state,
                           prevPrevState |-> chain.prevPrevState]]

\* variant: the receipt carries the position read before the increment
sealTransport_positionBeforeIncrement(payload, domain, ts, rand, chain, keypair) ==
    IF payload.kind = "circular"
    THEN [threw |-> TRUE, message |-> "Converting circular structure to JSON",
          receipt |-> NoReceipt, chain |-> chain]
    ELSE IF ~keypair.secretKeyValid
    THEN [threw |-> TRUE, message |-> "bad secret key size",
          receipt |-> NoReceipt, chain |-> chain]
    ELSE LET receiptId    == <<"KT-", ts, "-", rand>>
             cotHash      == sha256(payload.json)
             parseHash    == sha256(<<domain, "|", ts>>)
             artifactHash == sha256(<<cotHash, parseHash>>)
             signature    == [signed |-> artifactHash, by |-> PUBLIC_KEY(keypair)]
             arnold       == arnoldTransform(chain.prevPrevState, chain.prevState)
             state        == sha256(<<artifactHash, arnold>>)
             posc         == [state          |-> state,
                              previous_state |-> chain.prevState,
                              chain_position |-> chain.chainPosition,
                              genesis_hash   |-> GENESIS_HASH(keypair)]
         IN  [threw   |-> FALSE,
              message |-> "",
              receipt |-> [receipt_id |-> receiptId,
                           timestamp  |-> ts,
                           public_key |-> PUBLIC_KEY(keypair),
                           helix      |-> [artifact_hash |-> artifactHash,
                                           signature     |-> signature],
                           posc       |-> posc],
              chain   |-> [chainPosition |-> chain.chainPosition + 1,
                           prevState     |-> state,
                           prevPrevState |-> chain.prevState]]

\* sealTransport(payload, domain) at time ts with random bytes rand, from the
\* module state chain; JSON.stringify and nacl.sign.detached throw before the
\* chain is touched
sealTransport(payload, domain, ts, rand, chain, keypair) ==
    IF payload.kind = "circular"
    THEN [threw |-> TRUE, message |-> "Converting circular structure to JSON",
          receipt |-> NoReceipt, chain |-> chain]
    ELSE IF ~keypair.secretKeyValid
    THEN [threw |-> TRUE, message |-> "bad secret key size",
          receipt |-> NoReceipt, chain |-> chain]
    ELSE LET receiptId    == <<"KT-", ts, "-", rand>>
             cotHash      == sha256(payload.json)
             parseHash    == sha256(<<domain, "|", ts>>)
             artifactHash == sha256(<<cotHash, parseHash>>)
             signature    == [signed |-> artifactHash, by |-> PUBLIC_KEY(keypair)]
             arnold       == arnoldTransform(chain.prevPrevState, chain.prevState)
             state        == sha256(<<artifactHash, arnold>>)
             posc         == [state          |-> state,
                              previous_state |-> chain.prevState,
                              chain_position |-> chain.chainPosition + 1,
                              genesis_hash   |-> GENESIS_HASH(keypair)]
         IN  [threw   |-> FALSE,
              message |-> "",
              receipt |-> [receipt_id |-> receiptId,
                           timestamp  |-> ts,
                           public_key |-> PUBLIC_KEY(keypair),
                           helix      |-> [artifact_hash |-> artifactHash,
                                           signature     |-> signature],
                           posc       |-> posc],
              chain   |-> [chainPosition |-> chain.chainPosition + 1,
                           prevState     |-> state,
                           prevPrevState |-> chain.prevState]]

compactReceipt(full) ==
    [receipt_id     |-> full.receipt_id,
     signature      |-> full.helix.signature,
     artifact_hash  |-> full.helix.artifact_hash,
     public_key     |-> full.public_key,
     chain_position |-> full.posc.chain_position,
     timestamp      |-> full.timestamp]

\* { ...data, _kaitiaki: compact }
WithKaitiaki(data, compact) == [kind |-> "object", json |-> data.json, _kaitiaki |-> compact]

KaitiakiHeaders ==
    <<"X-Kaitiaki-Receipt-Id", "X-Kaitiaki-Chain-Position", "X-Kaitiaki-Public-Key">>

\* variant: no try/catch, a failure while sealing leaves the wrapper
kaitiakiJson_noCatch(data, domain, headersSent, ts, rand, chain, keypair) ==
    LET seal == sealTransport(data, domain, ts, rand, chain, keypair)
    IN  IF seal.threw
        THEN [threw |-> TRUE, error |-> seal.message, written |-> <<>>,
              headers |-> <<>>, receipt |-> NoReceipt, chain |-> seal.chain]
        ELSE IF headersSent
        THEN [threw |-> TRUE, error |-> "Cannot set headers after they are sent to the client",
              written |-> <<>>, headers |-> <<>>,
              receipt |-> seal.receipt, chain |-> seal.chain]
        ELSE [threw |-> FALSE, error |-> "",
              written |-> IF data.kind = "object"
                          THEN <<WithKaitiaki(data, compactReceipt(seal.receipt))>>
                          ELSE <<data>>,
              headers |-> KaitiakiHeaders,
              receipt |-> seal.receipt, chain |-> seal.chain]

\* res.json as replaced by kaitiakiExpressMiddleware.  written is what is
\* handed to the original res.json, in order; headers the headers set;
\* error the message logged by the catch block.  res.setHeader throws when
\* the response's headers have been sent.
kaitiakiJson(data, domain, headersSent, ts, rand, chain, keypair) ==
    LET seal == sealTransport(data, domain, ts, rand, chain, keypair)
    IN  IF seal.threw
        THEN [threw |-> FALSE, error |-> seal.message, written |-> <<data>>,
              headers |-> <<>>, receipt |-> NoReceipt, chain |-> seal.chain]
        ELSE IF headersSent
        THEN [threw |-> FALSE, error |-> "Cannot set headers after they are sent to the client",
              written |-> <<data>>, headers |-> <<>>,
              receipt |-> seal.receipt, chain |-> seal.chain]
        ELSE [threw |-> FALSE, error |-> "",
              written |-> IF data.kind = "object"
                          THEN <<WithKaitiaki(data, compactReceipt(seal.receipt))>>
                          ELSE <<data>>,
              headers |-> KaitiakiHeaders,
              receipt |-> seal.receipt, chain |-> seal.chain]

\* kaitiakiWrapResponse(data, domain): written is the value returned
kaitiakiWrapResponse(data, domain, ts, rand, chain, keypair) ==
    LET seal == sealTransport(data, domain, ts, rand, chain, keypair)
    IN  IF seal.threw
        THEN [threw |-> FALSE, error |-> seal.message, written |-> <<data>>,
              headers |-> <<>>, receipt |-> NoReceipt, chain |-> seal.chain]
        ELSE [threw |-> FALSE, error |-> "",
              written |-> IF data.kind = "object"
                          THEN <<WithKaitiaki(data, compactReceipt(seal.receipt))>>
                          ELSE <<data>>,
              headers |-> <<>>,
              receipt |-> seal.receipt, chain |-> seal.chain]

(***************************************************************************)
(* advisor/advisor-chat.js: AssessmentAccumulator                          *)
(***************************************************************************)
NoSession == [none |-> TRUE]

FieldNames ==
    {"cohort", "scope", "clinician_id", "consent_record_id", "model_version", "confidence",
     "data_quality", "model_count", "population_size", "patient_facing", "assessment_type",
     "regulatory_jurisdiction", "equity_flag", "dissent_flag"}

FieldEntry(value, source) == [value |-> value, source |-> source]

\* constructor(): source is "null" where the source has null
NewAccumulator ==
    [fields |->
        [f \in FieldNames |->
            CASE f = "confidence"      -> FieldEntry(Num(750), "default")
              [] f = "data_quality"    -> FieldEntry(Str(<<"good">>), "default")
              [] f = "model_count"     -> FieldEntry(Num(2), "default")
              [] f = "population_size" -> FieldEntry(Num(0), "default")
              [] f = "patient_facing"  -> FieldEntry(Bool(FALSE), "default")
              [] f = "assessment_type" -> FieldEntry(Str(<<"population_mortality">>), "default")
              [] f = "dissent_flag"    -> FieldEntry(Bool(FALSE), "default")
              [] OTHER                 -> FieldEntry(NULL, "null")],
     consentGenerated   |-> FALSE,
     stopSignalled      |-> FALSE,
     turnCount          |-> 0,
     lastGateSimulation |-> NULL]

update(a, fieldName, value, source) ==
    IF fieldName \notin DOMAIN a.fields THEN a
    ELSE [a EXCEPT !.fields[fieldName] = FieldEntry(value, source)]

\* the keys left out of the body read as undefined
getFieldValues(a) ==
    [f \in FieldNames |->
        IF a.fields[f].value \in {NULL, UNDEF} THEN UNDEF ELSE a.fields[f].value]

RequiredFields == <<"cohort", "scope", "clinician_id", "consent_record_id", "model_version">>

getMissing(a) ==
    SelectSeq(RequiredFields,
              LAMBDA f : \/ a.fields[f].value = NULL
                         \/ a.fields[f].value = Str(<<>>)
                         \/ a.fields[f].source = "default")

\* v || d
Or(v, d) == IF Truthy(v) THEN v ELSE d

needsEquityFlag(a) ==
    /\ GreaterThan(Or(a.fields.population_size.value, Num(0)), 10000)
    /\ ~Truthy(a.fields.equity_flag.value)

(***************************************************************************)
(* advisor/gate-explainer.js                                               *)
(***************************************************************************)
Explanation(gate, key) == [gate |-> gate, key |-> key]

\* a gate score as explainGates reads it: score || 1, in 1/10000
ScoreOr1(score) == IF score = 0 \/ score = NaN THEN 10000 ELSE score

\* explainGates(gateResult, ctx): gateResult is the yamas member of a
\* verdict; the result lists the explanations pushed, by gate and by key
\* of EXPLANATIONS
explainGates(gateResult, ctx) ==
    IF gateResult = NULL THEN <<>>
    ELSE
      (IF ~gateResult.ahimsa.pass
       THEN (IF ctx.assessment_type \in FORBIDDEN_TYPES
             THEN <<Explanation("ahimsa", "forbidden_type")>> ELSE <<>>)
            \o (IF GreaterThan(Or(ctx.population_size, Num(0)), 10000) /\ ~Truthy(ctx.equity_flag)
                THEN <<Explanation("ahimsa", "equity_missing")>> ELSE <<>>)
       ELSE IF Truthy(ctx.patient_facing)
            THEN <<Explanation("ahimsa", "patient_facing")>> ELSE <<>>)
      \o
      (IF ~gateResult.satya.pass
       THEN (IF LessThan(Or(ctx.confidence, Num(0)), 600)
             THEN <<Explanation("satya", "low_confidence")>> ELSE <<>>)
            \o (IF ~Truthy(ctx.model_version)
                THEN <<Explanation("satya", "no_model_version")>> ELSE <<>>)
            \o (IF ctx.data_quality \notin
                      {Str(<<"good">>), Str(<<"high">>), Str(<<"excellent">>)}
                THEN <<Explanation("satya", "poor_data")>> ELSE <<>>)
       ELSE <<>>)
      \o
      (IF ~gateResult.asteya.pass
       THEN IF ~Truthy(ctx.consent_record_id)
            THEN <<Explanation("asteya", "no_consent")>>
            ELSE <<Explanation("asteya", "invalid_consent")>>
       ELSE <<>>)
      \o
      (IF ~gateResult.brahmacharya.pass
       THEN <<Explanation("brahmacharya", "invalid_scope")>>
       ELSE IF ~Truthy(ctx.regulatory_jurisdiction)
            THEN <<Explanation("brahmacharya", "no_jurisdiction")>> ELSE <<>>)
      \o
      (IF ScoreOr1(gateResult.aparigraha.score) < 7500
       THEN IF LessThan(Or(ctx.model_count, Num(1)), 2) /\ ~Truthy(ctx.dissent_flag)
            THEN <<Explanation("aparigraha", "single_model")>>
            ELSE IF ~Truthy(ctx.dissent_flag)
            THEN <<Explanation("aparigraha", "no_dissent")>> ELSE <<>>
       ELSE <<>>)

(***************************************************************************)
(* advisor/advisor-chat.js: the chat turn and the consent generation       *)
(***************************************************************************)
\* the numerals that occur in messages, with their value in 1/1000
Numerals == {"0", "1", "3", "0.45", "1.5", "20000"}

MilliValue(numeral) ==
    CASE numeral = "0"     -> 0
      [] numeral = "1"     -> 1000
      [] numeral = "3"     -> 3000
      [] numeral = "0.45"  -> 450
      [] numeral = "1.5"   -> 1500
      [] numeral = "20000" -> 20000000

\* parseFloat(val): the leading numeral, NaN when there is none; in 1/1000
parseFloat(val) ==
    IF val.s # <<>> /\ Head(val.s) \in Numerals
    THEN Num(MilliValue(Head(val.s))) ELSE NaNValue

\* parseInt(val): the integer part of the leading numeral, in units
parseInt(val) ==
    IF val.s # <<>> /\ Head(val.s) \in Numerals
    THEN Num(MilliValue(Head(val.s)) \div 1000) ELSE NaNValue

\* const fieldMap = { COHORT: 'cohort', ... }
fieldMap ==
    [COHORT |-> "cohort", SCOPE |-> "scope", CLINICIAN_ID |-> "clinician_id",
     MODEL_VERSION |-> "model_version", CONFIDENCE |-> "confidence",
     DATA_QUALITY |-> "data_quality", MODEL_COUNT |-> "model_count",
     POPULATION_SIZE |-> "population_size", PATIENT_FACING |-> "patient_facing",
     ASSESSMENT_TYPE |-> "assessment_type",
     REGULATORY_JURISDICTION |-> "regulatory_jurisdiction",
     EQUITY_FLAG |-> "equity_flag", DISSENT_FLAG |-> "dissent_flag"]

\* the value stored for a field from the extracted text
convertExtracted(fieldName, val) ==
    CASE fieldName = "confidence" -> Or(parseFloat(val), Num(750))
      [] fieldName \in {"model_count", "population_size"} -> Or(parseInt(val), Num(0))
      [] fieldName \in {"patient_facing", "dissent_flag"} -> Bool(val = Str(<<"true">>))
      [] OTHER -> val

\* for (const [xmlTag, fieldName] of Object.entries(fieldMap)) { ... acc.update(...) }
updateFromExtracted(a, extracted) ==
    [a EXCEPT !.fields =
        [f \in FieldNames |->
            IF \E tag \in DOMAIN fieldMap :
                   fieldMap[tag] = f /\ extracted[tag] \notin {UNDEF, Str(<<>>)}
            THEN LET tag == CHOOSE t \in DOMAIN fieldMap : fieldMap[t] = f
                 IN  FieldEntry(convertExtracted(f, extracted[tag]), "chat")
            ELSE a.fields[f]]]

WEIGHTS ==
    [cohort |-> 20, scope |-> 20, clinician_id |-> 10, consent_record_id |-> 15,
     model_version |-> 15, confidence |-> 5, regulatory_jurisdiction |-> 5,
     equity_flag |-> 5, population_size |-> 3, model_count |-> 2]

\* the contribution of one field, in 1/10 of a point
fieldScore(a, field) ==
    LET v == a.fields[field]
    IN  IF v.value # NULL /\ v.source # "default" /\ v.value # Str(<<>>)
        THEN 10 * WEIGHTS[field]
        ELSE IF v.source = "default" THEN 3 * WEIGHTS[field] ELSE 0

\* max is 100, so the percentage is the score rounded to a whole number
scoreCompleteness(a) ==
    LET score == fieldScore(a, "cohort") + fieldScore(a, "scope")
                 + fieldScore(a, "clinician_id") + fieldScore(a, "consent_record_id")
                 + fieldScore(a, "model_version") + fieldScore(a, "confidence")
                 + fieldScore(a, "regulatory_jurisdiction") + fieldScore(a, "equity_flag")
                 + fieldScore(a, "population_size") + fieldScore(a, "model_count")
        rounded == (score + 5) \div 10
        pct == IF rounded < 100 THEN rounded ELSE 100
    IN  [score   |-> pct,
         state   |-> IF a.stopSignalled THEN "SUBMIT_NOW"
                     ELSE IF pct >= 80 /\ a.consentGenerated THEN "READY"
                     ELSE IF pct >= 50 THEN "BUILDING"
                     ELSE "GATHERING",
         missing |-> getMissing(a)]

\* let acc = sessions.get(sessionId); if (!acc) { acc = new AssessmentAccumulator(); }
getSession(session) == IF session = NoSession THEN NewAccumulator ELSE session

\* acc.turnCount++
countTurn(a) == [a EXCEPT !.turnCount = @ + 1]

\* if (extracted.STOP_SIGNAL === 'true') acc.stopSignalled = true
signalStop(a, extracted) ==
    IF extracted.STOP_SIGNAL = Str(<<"true">>) THEN [a EXCEPT !.stopSignalled = TRUE] ELSE a

\* the try block around runAllGates and the object returned: a gate that
\* throws leaves gateSimulation null and the accumulator as it was.  The
\* reply text and the hint, written by the language model or by its
\* fallback, are left out of the result.
turnResult(a, ctx, gateResult) ==
    [acc   |-> IF gateResult.threw THEN a ELSE [a EXCEPT !.lastGateSimulation = gateResult],
     reply |-> [call            |-> "turn",
                completeness    |-> scoreCompleteness(a),
                gateSimulation  |->
                    IF gateResult.threw THEN NULL
                    ELSE [pass            |-> gateResult.pass,
                          composite_score |-> gateResult.constitutional_score,
                          gates |-> [g \in DOMAIN gateResult.yamas |->
                                        [score |-> gateResult.yamas[g].score,
                                         pass  |-> gateResult.yamas[g].pass]]],
                explanations    |-> IF gateResult.threw THEN <<>>
                                    ELSE explainGates(gateResult.yamas, ctx),
                fields          |-> ctx,
                consentGenerated |-> a.consentGenerated,
                needsEquityFlag |-> needsEquityFlag(a),
                turnNumber      |-> a.turnCount]]

\* const ctx = acc.getFieldValues(); ... runAllGates(ctx)
simulateGates(a, ctx) == turnResult(a, ctx, runAllGates(ctx))

\* handleAdvisorTurn(sessionId, message): extracted is what regexGodExtract
\* returned for the message
handleAdvisorTurn(session, extracted) ==
    LET a == signalStop(updateFromExtracted(countTurn(getSession(session)), extracted),
                        extracted)
    IN  simulateGates(a, getFieldValues(a))

\* the accumulator with the generated id stored, and the reply
consentResult(session, v, id) ==
    IF id.threw
    THEN [acc |-> session, reply |-> [call |-> "consent", error |-> id.message]]
    ELSE [acc |-> [update(session, "consent_record_id", id.value, "generated")
                      EXCEPT !.consentGenerated = TRUE],
          reply |-> [call |-> "consent", error |-> "",
                     consent_record_id |-> id.value, cohort |-> v.cohort,
                     scope |-> v.scope, clinician_id |-> v.clinician_id]]

\* the part of handleConsentGeneration after the session lookup
generateFor(session, v) ==
    IF ~Truthy(v.cohort) \/ ~Truthy(v.scope) \/ ~Truthy(v.clinician_id)
    THEN [acc |-> session,
          reply |-> [call |-> "consent",
                     error |-> "Need cohort, scope, and clinician_id first"]]
    ELSE consentResult(session, v, generateConsentRecordId(v.cohort, v.scope, v.clinician_id))

\* handleConsentGeneration(sessionId)
handleConsentGeneration(session) ==
    IF session = NoSession
    THEN [acc |-> session, reply |-> [call |-> "consent", error |-> "No active session"]]
    ELSE generateFor(session, getFieldValues(session))

(***************************************************************************)
(* State                                                                   *)
(***************************************************************************)
VARIABLES
    gatePhase,      \* "idle" | "returned" | "evaluated": position of a gate call
    gateCtx,        \* the ctx argument of the call in progress
    gateVerdict,    \* the value runAllGates returned
    consentPhase,   \* "input" | "derived" | "validated"
    consentArgs,    \* two argument triples for generateConsentRecordId
    consentIds,     \* the results of generateConsentRecordId on them
    consentCheck,   \* the last validateConsentRecord call and its result
    srvPc,          \* position of the server in the request it is handling
    srvReq,         \* the request being handled: endpoint and parsed body
    srvVerdict,     \* the verdict runAllGates returned for it
    srvEvents,      \* the steps taken for it so far, in order
    srvResponse,    \* the response sent for it
    srvCount,       \* number of requests received
    constitutional_log,  \* table constitutional_log
    risk_assessments,    \* table risk_assessments
    consent_records,     \* table consent_records
    keypair,        \* middleware.cjs: the keypair loaded at module load
    chainPosition,  \* middleware.cjs: let chainPosition
    prevState,      \* middleware.cjs: let prevState
    prevPrevState,  \* middleware.cjs: let prevPrevState
    clock,          \* Date.now(), in milliseconds
    sealCalls,      \* the wrapper calls made so far, in the order they ran
    linkPhase,      \* "input" | "linked": position of a chainReceipt call
    linkArgs,       \* its arguments: currentReceipt and parentReceiptOrId
    linkResult,     \* what it returned or threw
    hops,           \* per service of a chain, origin first: the request it
                    \* received and the chained receipt it answered with
    running,        \* whether the process is up
    keyFile,        \* .kaitiaki-middleware/keypair.json as it is on disk
    starts,         \* per process start: what was found and what was set up
    console,        \* what the process has written to the console
    acc,            \* advisor-chat.js: the AssessmentAccumulator of the session
    advReply        \* what the last advisor call returned

gateVars == <<gatePhase, gateCtx, gateVerdict>>

consentVars == <<consentPhase, consentArgs, consentIds, consentCheck>>

serverVars == <<srvPc, srvReq, srvVerdict, srvEvents, srvResponse, srvCount,
                constitutional_log, risk_assessments, consent_records>>

sealVars == <<keypair, chainPosition, prevState, prevPrevState, clock, sealCalls>>

chainVars == <<linkPhase, linkArgs, linkResult, hops>>

startVars == <<running, keyFile, starts, console>>

advisorVars == <<acc, advReply>>

vars == <<gateVars, consentVars, serverVars, sealVars, chainVars, startVars, advisorVars>>

\* the variables outside the gate and the consent-protocol specifications
restVars == <<serverVars, sealVars, chainVars, startVars, advisorVars>>

NoRequest == [none |-> TRUE]

NoResponse == [none |-> TRUE]

\* the server has received nothing and its tables are empty
ServerUnused ==
    /\ srvPc = "idle"
    /\ srvReq = NoRequest
    /\ srvVerdict = [none |-> TRUE]
    /\ srvEvents = <<>>
    /\ srvResponse = NoResponse
    /\ srvCount = 0
    /\ constitutional_log = <<>>
    /\ risk_assessments = <<>>
    /\ consent_records = <<>>

\* the middleware module as loaded, with a usable key and nothing sealed
LoadedKeypair == [publicKey |-> "pk-1", secretKeyValid |-> TRUE]

SealUnused ==
    /\ keypair = LoadedKeypair
    /\ chainPosition = 0
    /\ prevState = GENESIS_HASH(LoadedKeypair)
    /\ prevPrevState = GENESIS_HASH(LoadedKeypair)
    /\ clock = 0
    /\ sealCalls = <<>>

NoLink == [none |-> TRUE]

\* no receipt has been chained
ChainUnused ==
    /\ linkPhase = "input"
    /\ linkArgs = NoLink
    /\ linkResult = NoLink
    /\ hops = <<>>

\* the process is up on the stored key and has logged nothing
StartUnused ==
    /\ running = TRUE
    /\ keyFile = StoredKeyFile(LoadedKeypair)
    /\ starts = <<>>
    /\ console = <<>>

NoReply == [none |-> TRUE]

\* no advisor session exists
AdvisorUnused ==
    /\ acc = NoSession
    /\ advReply = NoReply

RestUnused == ServerUnused /\ SealUnused /\ ChainUnused /\ StartUnused /\ AdvisorUnused

NoCtx == [none |-> TRUE]

NoVerdict == [none |-> TRUE]

NoCheck == [none |-> TRUE]

GateUnused == gatePhase = "idle" /\ gateCtx = NoCtx /\ gateVerdict = NoVerdict

ConsentUnused ==
    /\ consentPhase = "input"
    /\ consentArgs = <<>>
    /\ consentIds = <<>>
    /\ consentCheck = NoCheck

(***************************************************************************)
(* Gate contexts: every combination of the listed field values             *)
(***************************************************************************)
ExampleCohort == Str(<<"nz-smokers">>)

ExampleScope == Str(<<"population_mortality">>)

ExampleClinician == Str(<<"clin-1">>)

ExampleConsentId == generateConsentRecordId(ExampleCohort, ExampleScope, ExampleClinician).value

GateContexts ==
    [ equity_flag             : {UNDEF, Str(<<"maori-health-equity-reviewed">>)},
      population_size         : {UNDEF, Num(10000), Num(10001)},
      patient_facing          : {UNDEF, Bool(TRUE)},
      assessment_type         : {UNDEF, Str(<<"racial_profiling">>)},
      confidence              : {UNDEF, NaNValue, Str(<<"0.9">>), Num(450), Num(600), Num(750), Num(1000)},
      data_quality            : {Str(<<"poor">>), Str(<<"good">>)},
      model_version           : {UNDEF, Str(<<"v1">>)},
      consent_record_id       : {UNDEF, ExampleConsentId, Str(<<"fabricated">>)},
      cohort                  : {UNDEF, ExampleCohort},
      scope                   : {UNDEF, ExampleScope, Str(<<"POPULATION_MORTALITY">>),
                                 Str(<<"credit_scoring">>), UnconvertibleObject},
      clinician_id            : {ExampleClinician, Str(<<"CLIN-1">>)},
      regulatory_jurisdiction : {UNDEF, Str(<<"nz">>)},
      model_count             : {Num(1), Num(2), Num(3)},
      dissent_flag            : {UNDEF, Bool(TRUE)} ]

\* the end-to-end example request of the architecture report
ExampleCtx ==
    [ equity_flag             |-> UNDEF,
      population_size         |-> UNDEF,
      patient_facing          |-> UNDEF,
      assessment_type         |-> UNDEF,
      confidence              |-> Num(750),
      data_quality            |-> Str(<<"good">>),
      model_version           |-> Str(<<"v1">>),
      consent_record_id       |-> ExampleConsentId,
      cohort                  |-> ExampleCohort,
      scope                   |-> ExampleScope,
      clinician_id            |-> ExampleClinician,
      regulatory_jurisdiction |-> Str(<<"nz">>),
      model_count             |-> Num(2),
      dissent_flag            |-> UNDEF ]

(***************************************************************************)
(* Gate orchestration: one call of runAllGates per behaviour step          *)
(***************************************************************************)
InitGates ==
    /\ gatePhase = "idle"
    /\ gateCtx = NoCtx
    /\ gateVerdict = NoVerdict
    /\ consentPhase = "input"
    /\ consentArgs = <<>>
    /\ consentIds = <<>>
    /\ consentCheck = NoCheck
    /\ RestUnused

RunAllGates(ctx) ==
    /\ gatePhase = "idle"
    /\ gatePhase' = "returned"
    /\ gateCtx' = ctx
    /\ gateVerdict' = runAllGates(ctx)
    /\ UNCHANGED <<consentVars, restVars>>

\* the caller has the verdict (or the exception) and the next call may start
GateReturn ==
    /\ gatePhase = "returned"
    /\ gatePhase' = "idle"
    /\ gateCtx' = NoCtx
    /\ gateVerdict' = NoVerdict
    /\ UNCHANGED <<consentVars, restVars>>

GateCall == gatePhase = "idle" /\ \E ctx \in GateContexts : RunAllGates(ctx)

NextGates ==
    \/ GateCall
    \/ GateReturn

SpecGates == InitGates /\ [][NextGates]_vars

(***************************************************************************)
(* The evaluators one by one: each gate is an exported function, called    *)
(* here on contexts that vary the fields it reads over what a JSON body or *)
(* a caller can supply; the other fields are absent.  The Truthfulness     *)
(* gate is also reached through POST /api/v1/dr_bot_ingest, which derives  *)
(* confidence from adversarial_score.                                      *)
(***************************************************************************)
\* the object literal { ...fields }
CtxWith(fields) ==
    [f \in DOMAIN ExampleCtx |-> IF f \in DOMAIN fields THEN fields[f] ELSE UNDEF]

AhimsaContexts ==
    { CtxWith(c) : c \in
        [ equity_flag     : {UNDEF, NULL, Str(<<>>), Str(<<"maori-health-equity-reviewed">>)},
          population_size : {UNDEF, NaNValue, Str(<<"many">>), Num(0), Num(10000), Num(10001),
                             Num(50000)},
          patient_facing  : {UNDEF, Bool(FALSE), Bool(TRUE)},
          assessment_type : {UNDEF, Str(<<"population_mortality">>), Str(<<"genetic_exclusion">>),
                             Str(<<"racial_profiling">>), Str(<<"disability_penalty">>)} ] }

SatyaContexts ==
    { CtxWith(c) : c \in
        [ confidence    : {UNDEF, NULL, NaNValue, Str(<<"0.9">>), Bool(TRUE), Num(-100), Num(0),
                           Num(450), Num(599), Num(600), Num(750), Num(950), Num(1000),
                           Num(1001), Num(1500)},
          data_quality  : {UNDEF, Str(<<"unknown">>), Str(<<"poor">>), Str(<<"good">>),
                           Str(<<"excellent">>)},
          model_version : {UNDEF, Str(<<>>), Str(<<"v1">>)} ] }

\* the bodies of POST /api/v1/dr_bot_ingest: adversarial_score as the caller
\* sent it (absent, null, a number in 1/1000, or a string that is no number)
DrBotBodies ==
    [ consent_record_id : {ExampleConsentId},
      cohort            : {ExampleCohort},
      scope             : {UNDEF},
      clinician_id      : {ExampleClinician},
      adversarial_score : {UNDEF, NULL, Num(0), Num(250), Num(400), Num(500), Num(1000),
                           Num(1500), Num(-500), NaNValue, Str(<<"high">>), Bool(TRUE)} ]

BrahmacharyaContexts ==
    { CtxWith(c) : c \in
        [ scope : VALIDATED_SCOPES \cup
                  {UNDEF, NULL, Str(<<>>), Str(<<"POPULATION_MORTALITY">>),
                   Str(<<" ", "population_mortality">>), Str(<<"credit_scoring">>),
                   UnconvertibleObject},
          regulatory_jurisdiction : {UNDEF, NULL, Str(<<>>), Str(<<"nz">>)} ] }

AparigrahaContexts ==
    { CtxWith(c) : c \in
        [ model_count  : {UNDEF, NULL, NaNValue, Str(<<"many">>), Num(0), Num(1), Num(2), Num(3),
                          Num(5)},
          dissent_flag : {UNDEF, Bool(FALSE), Bool(TRUE)} ] }

Evaluate(name, ctx, result) ==
    /\ gatePhase = "idle"
    /\ gatePhase' = "evaluated"
    /\ gateCtx' = ctx
    /\ gateVerdict' = [gate |-> name, result |-> result]
    /\ UNCHANGED <<consentVars, restVars>>

AhimsaGate == gatePhase = "idle" /\ \E ctx \in AhimsaContexts : Evaluate("ahimsa", ctx, ahimsaGate(ctx))

SatyaGate == gatePhase = "idle" /\ \E ctx \in SatyaContexts : Evaluate("satya", ctx, satyaGate(ctx))

\* the Truthfulness evaluation inside POST /api/v1/dr_bot_ingest
DrBotSatyaGate ==
    gatePhase = "idle" /\ \E body \in DrBotBodies :
        Evaluate("satya", drBotCtx(body), satyaGate(drBotCtx(body)))

BrahmaacharyaGate ==
    gatePhase = "idle" /\ \E ctx \in BrahmacharyaContexts :
        Evaluate("brahmacharya", ctx, brahmaacharyaGate(ctx))

AparigrahaGate ==
    gatePhase = "idle" /\ \E ctx \in AparigrahaContexts :
        Evaluate("aparigraha", ctx, aparigrahaGate(ctx))

\* the caller has the result and the next evaluation may start
EvaluatorReturn ==
    /\ gatePhase = "evaluated"
    /\ gatePhase' = "idle"
    /\ gateCtx' = NoCtx
    /\ gateVerdict' = NoVerdict
    /\ UNCHANGED <<consentVars, restVars>>

NextEvaluators ==
    \/ AhimsaGate
    \/ SatyaGate
    \/ DrBotSatyaGate
    \/ BrahmaacharyaGate
    \/ AparigrahaGate
    \/ EvaluatorReturn

SpecEvaluators == InitGates /\ [][NextEvaluators]_vars

(***************************************************************************)
(* Consent anchors: two argument triples are derived, then an anchor is    *)
(* validated against one of the triples                                    *)
(***************************************************************************)
RECURSIVE StringsOfLen(_, _)
StringsOfLen(alphabet, k) ==
    IF k = 0 THEN {<<>>}
    ELSE {<<sym>> \o q : sym \in alphabet, q \in StringsOfLen(alphabet, k - 1)}

StringsUpTo(alphabet, k) == UNION {StringsOfLen(alphabet, j) : j \in 0..k}

\* cohorts: every string of at most MaxLen symbols, the empty string included
ConsentCohorts == {Str(q) : q \in StringsUpTo({" ", "nz", "NZ"}, MaxLen)}

\* scopes: a padded upper-case scope, and three values that are also cohorts
\* (two spellings of one word, and a different word)
ConsentScopes ==
    {Str(<<" ", "POPULATION_MORTALITY">>), Str(<<"nz">>), Str(<<"NZ">>), Str(<<"nz", "nz">>)}

ConsentClinicians == {Str(<<"clin-1">>), Str(<<"CLIN-1">>), Str(<<"clin-1", " ">>)}

ConsentTriples ==
    [cohort : ConsentCohorts, scope : ConsentScopes, clinician_id : ConsentClinicians]

InitConsent ==
    /\ gatePhase = "idle"
    /\ gateCtx = NoCtx
    /\ gateVerdict = NoVerdict
    /\ consentPhase = "input"
    /\ consentArgs \in {<<t1, t2>> : t1 \in ConsentTriples, t2 \in ConsentTriples}
    /\ consentIds = <<>>
    /\ consentCheck = NoCheck
    /\ RestUnused

\* the k-th call of generateConsentRecordId({cohort, scope, clinician_id})
GenerateConsentRecordId(k) ==
    /\ consentPhase = "input"
    /\ Len(consentIds) = k - 1
    /\ consentIds' = Append(consentIds,
           generateConsentRecordId(consentArgs[k].cohort, consentArgs[k].scope,
                                   consentArgs[k].clinician_id))
    /\ consentPhase' = IF k = Len(consentArgs) THEN "derived" ELSE "input"
    /\ UNCHANGED <<consentArgs, consentCheck>>
    /\ UNCHANGED <<gateVars, restVars>>

\* validateConsentRecord(id returned by call i, triple j)
ValidateConsentRecord(i, j) ==
    /\ consentPhase = "derived"
    /\ ~consentIds[i].threw
    /\ consentCheck' =
           [id |-> i, args |-> j,
            result |-> validateConsentRecord(consentIds[i].value, consentArgs[j].cohort,
                                             consentArgs[j].scope, consentArgs[j].clinician_id)]
    /\ consentPhase' = "validated"
    /\ UNCHANGED <<consentArgs, consentIds>>
    /\ UNCHANGED <<gateVars, restVars>>

NextConsent ==
    \/ \E k \in 1..2 : GenerateConsentRecordId(k)
    \/ \E i, j \in 1..2 : ValidateConsentRecord(i, j)

SpecConsent == InitConsent /\ [][NextConsent]_vars

(***************************************************************************)
(* Validation of a supplied anchor: the caller hands validateConsentRecord *)
(* any anchor value and any triple, elements possibly absent, empty, falsy *)
(* or without a primitive value                                            *)
(***************************************************************************)
ValidateCohorts ==
    {UNDEF, Str(<<>>), Num(0), UnconvertibleObject, Str(<<"nz">>), Str(<<" ", "NZ">>)}

ValidateScopes ==
    {UNDEF, Str(<<>>), Num(0), UnconvertibleObject,
     Str(<<"population_mortality">>), Str(<<"POPULATION_MORTALITY">>)}

ValidateClinicians ==
    {UNDEF, Str(<<>>), Num(0), UnconvertibleObject, Str(<<"clin-1">>), Str(<<"CLIN-1">>)}

ValidateTriples ==
    [cohort : ValidateCohorts, scope : ValidateScopes, clinician_id : ValidateClinicians]

\* every anchor generateConsentRecordId returns for one of the triples
DerivableAnchors ==
    {generateConsentRecordId(t.cohort, t.scope, t.clinician_id).value :
        t \in {u \in ValidateTriples :
                  ~generateConsentRecordId(u.cohort, u.scope, u.clinician_id).threw}}

\* anchors a caller can supply: absent, empty, not a string, without the
\* prefix (a fabricated word, a genuine digest with the prefix cut off), with
\* the prefix but forged, and the genuine ones
SuppliedAnchors ==
    {UNDEF, Str(<<>>), Num(7), Bool(TRUE), UnconvertibleObject,
     Str(<<"fabricated">>), Str(<<"CR-", "forged">>)}
        \cup {Str(Tail(a.s)) : a \in DerivableAnchors}
        \cup DerivableAnchors

InitValidate ==
    /\ gatePhase = "idle"
    /\ gateCtx = NoCtx
    /\ gateVerdict = NoVerdict
    /\ consentPhase = "supplied"
    /\ consentArgs \in {<<t>> : t \in ValidateTriples}
    /\ consentIds = <<>>
    /\ consentCheck = NoCheck
    /\ RestUnused

\* validateConsentRecord(anchor, {cohort, scope, clinician_id}) on a supplied anchor
ValidateSupplied(anchor) ==
    /\ consentPhase = "supplied"
    /\ consentCheck' =
           [anchor |-> anchor,
            result |-> validateConsentRecord(anchor, consentArgs[1].cohort,
                                             consentArgs[1].scope, consentArgs[1].clinician_id)]
    /\ consentPhase' = "checked"
    /\ UNCHANGED <<consentArgs, consentIds>>
    /\ UNCHANGED <<gateVars, restVars>>

\* the caller has the answer and supplies the next anchor
ValidateReturn ==
    /\ consentPhase = "checked"
    /\ consentPhase' = "supplied"
    /\ consentCheck' = NoCheck
    /\ UNCHANGED <<consentArgs, consentIds>>
    /\ UNCHANGED <<gateVars, restVars>>

NextValidate ==
    \/ \E anchor \in SuppliedAnchors : ValidateSupplied(anchor)
    \/ ValidateReturn

SpecValidate == InitValidate /\ [][NextValidate]_vars

(***************************************************************************)
(* Audit summaries: consentSummary is called on two argument objects; the  *)
(* caller's object may carry the clinician_id it knows besides the three   *)
(* properties the function reads                                           *)
(***************************************************************************)
SummaryParams ==
    [consent_record_id : {UNDEF, ExampleConsentId,
                          generateConsentRecordId(ExampleCohort, ExampleScope,
                                                  Str(<<"CLIN-1">>)).value},
     cohort            : {UNDEF, ExampleCohort, Str(<<" ", "NZ">>)},
     scope             : {ExampleScope, Str(<<"POPULATION_MORTALITY">>)},
     clinician_id      : {UNDEF, ExampleClinician, Str(<<"CLIN-1">>), Str(<<"clin-1", " ">>)}]

InitSummary ==
    /\ gatePhase = "idle"
    /\ gateCtx = NoCtx
    /\ gateVerdict = NoVerdict
    /\ consentPhase = "input"
    /\ consentArgs \in {<<p1, p2>> : p1 \in SummaryParams, p2 \in SummaryParams}
    /\ consentIds = <<>>
    /\ consentCheck = NoCheck
    /\ RestUnused

\* the k-th call of consentSummary
ConsentSummary(k) ==
    /\ consentPhase = "input"
    /\ Len(consentIds) = k - 1
    /\ consentIds' = Append(consentIds, consentSummary(consentArgs[k]))
    /\ consentPhase' = IF k = Len(consentArgs) THEN "summarised" ELSE "input"
    /\ UNCHANGED <<consentArgs, consentCheck>>
    /\ UNCHANGED <<gateVars, restVars>>

NextSummary == \E k \in 1..2 : ConsentSummary(k)

SpecSummary == InitSummary /\ [][NextSummary]_vars

(***************************************************************************)
(* server.js: the HTTP server handles one request at a time (handlers are  *)
(* synchronous); POST /api/v1/assess is followed step by step, POST        *)
(* /api/consent/generate is one step                                       *)
(***************************************************************************)
PaddedClinician == Str(<<"clin-1", " ">>)

ConsentBodies ==
    [cohort       : {UNDEF, ExampleCohort},
     scope        : {ExampleScope},
     clinician_id : {ExampleClinician, PaddedClinician}]

AssessBodies ==
    [ equity_flag             : {UNDEF, Str(<<"maori-health-equity-reviewed">>)},
      consent_record_id       : {UNDEF, ExampleConsentId},
      cohort                  : {ExampleCohort},
      scope                   : {ExampleScope, Str(<<"credit_scoring">>), UnconvertibleObject},
      clinician_id            : {ExampleClinician},
      confidence              : {UNDEF},
      data_quality            : {UNDEF},
      model_version           : {Str(<<"v1">>)},
      model_count             : {UNDEF},
      population_size         : {UNDEF, Num(10001)},
      patient_facing          : {UNDEF},
      assessment_type         : {UNDEF},
      regulatory_jurisdiction : {Str(<<"nz">>)},
      dissent_flag            : {UNDEF} ]

\* the clinician_id values that reach the server in a request
RequestClinicians == {b.clinician_id : b \in ConsentBodies \cup AssessBodies}

InitServer ==
    /\ gatePhase = "idle"
    /\ gateCtx = NoCtx
    /\ gateVerdict = NoVerdict
    /\ consentPhase = "input"
    /\ consentArgs = <<>>
    /\ consentIds = <<>>
    /\ consentCheck = NoCheck
    /\ ServerUnused
    /\ StartUnused
    /\ AdvisorUnused
    /\ SealUnused
    /\ ChainUnused

\* the server is free to take the next request
Accepting == srvPc \in {"idle", "responded"} /\ srvCount < MaxRequests

\* POST /api/consent/generate, the whole handler
ConsentGenerate(body) ==
    /\ Accepting
    /\ srvCount' = srvCount + 1
    /\ srvReq' = [endpoint |-> "/api/consent/generate", body |-> body]
    /\ srvVerdict' = [none |-> TRUE]
    /\ srvEvents' = <<"response">>
    /\ srvPc' = "responded"
    /\ IF ~Truthy(body.cohort) \/ ~Truthy(body.scope) \/ ~Truthy(body.clinician_id)
       THEN /\ srvResponse' = [status |-> 400, summary |-> UNDEF]
            /\ UNCHANGED consent_records
       ELSE LET id == generateConsentRecordId(body.cohort, body.scope, body.clinician_id)
                summary == consentSummary([consent_record_id |-> id.value,
                                           cohort |-> body.cohort, scope |-> body.scope,
                                           clinician_id |-> UNDEF])
            IN  IF id.threw
                THEN /\ srvResponse' = [status |-> 400, summary |-> UNDEF]
                     /\ UNCHANGED consent_records
                ELSE /\ consent_records' =
                            upsertConsentRecord(consent_records,
                                [consent_record_id |-> id.value, cohort |-> body.cohort,
                                 scope |-> body.scope, clinician_id |-> body.clinician_id])
                     /\ srvResponse' = IF summary.threw
                                       THEN [status |-> 400, summary |-> UNDEF]
                                       ELSE [status |-> 200, summary |-> summary.value]
    /\ UNCHANGED <<constitutional_log, risk_assessments>>
    /\ UNCHANGED <<gateVars, consentVars, sealVars, chainVars, startVars, advisorVars>>

\* POST /api/v1/assess: destructure the body, build ctx, call runAllGates
AssessGates(body) ==
    /\ Accepting
    /\ srvCount' = srvCount + 1
    /\ srvReq' = [endpoint |-> "/api/v1/assess", body |-> body]
    /\ srvVerdict' = runAllGates(assessCtx(body))
    /\ srvEvents' = <<"gates">>
    /\ srvResponse' = NoResponse
    /\ srvPc' = IF runAllGates(assessCtx(body)).threw THEN "threw" ELSE "gated"
    /\ UNCHANGED <<constitutional_log, risk_assessments, consent_records>>
    /\ UNCHANGED <<gateVars, consentVars, sealVars, chainVars, startVars, advisorVars>>

\* logConstitutionalVerdict({...})
AssessLogVerdict ==
    /\ srvPc = "gated"
    /\ constitutional_log' =
           logConstitutionalVerdict(constitutional_log,
               [endpoint             |-> "/api/v1/assess",
                consent_record_id    |-> srvReq.body.consent_record_id,
                constitutional_score |-> srvVerdict.constitutional_score,
                pass                 |-> srvVerdict.pass,
                blocked_by           |-> srvVerdict.blocked_by,
                yamas                |-> srvVerdict.yamas])
    /\ srvEvents' = Append(srvEvents, "log")
    /\ srvPc' = "logged"
    /\ UNCHANGED <<srvReq, srvVerdict, srvResponse, srvCount, risk_assessments, consent_records>>
    /\ UNCHANGED <<gateVars, consentVars, sealVars, chainVars, startVars, advisorVars>>

\* if (!verdict.pass) return res.status(403).json({...})
AssessBlocked ==
    /\ srvPc = "logged"
    /\ ~srvVerdict.pass
    /\ srvResponse' = [status |-> 403, summary |-> UNDEF]
    /\ srvEvents' = Append(srvEvents, "response")
    /\ srvPc' = "responded"
    /\ UNCHANGED <<srvReq, srvVerdict, srvCount,
                   constitutional_log, risk_assessments, consent_records>>
    /\ UNCHANGED <<gateVars, consentVars, sealVars, chainVars, startVars, advisorVars>>

\* insertRiskAssessment({..., payload: body, source: 'api'})
AssessInsert ==
    /\ srvPc = "logged"
    /\ srvVerdict.pass
    /\ risk_assessments' =
           insertRiskAssessment(risk_assessments,
               [consent_record_id    |-> srvReq.body.consent_record_id,
                cohort               |-> srvReq.body.cohort,
                scope                |-> srvReq.body.scope,
                constitutional_score |-> srvVerdict.constitutional_score,
                pass                 |-> TRUE,
                yamas                |-> srvVerdict.yamas,
                payload              |-> srvReq.body,
                source               |-> Str(<<"api">>)])
    /\ srvEvents' = Append(srvEvents, "insert")
    /\ srvPc' = "inserted"
    /\ UNCHANGED <<srvReq, srvVerdict, srvResponse, srvCount,
                   constitutional_log, consent_records>>
    /\ UNCHANGED <<gateVars, consentVars, sealVars, chainVars, startVars, advisorVars>>

\* res.json({status: 'ASSESSMENT_RECORDED', ...})
AssessRespond ==
    /\ srvPc = "inserted"
    /\ srvResponse' = [status |-> 200, summary |-> UNDEF]
    /\ srvEvents' = Append(srvEvents, "response")
    /\ srvPc' = "responded"
    /\ UNCHANGED <<srvReq, srvVerdict, srvCount,
                   constitutional_log, risk_assessments, consent_records>>
    /\ UNCHANGED <<gateVars, consentVars, sealVars, chainVars, startVars, advisorVars>>

\* runAllGates threw: the exception leaves the handler and the framework's
\* error handler answers 500
AssessError ==
    /\ srvPc = "threw"
    /\ srvResponse' = [status |-> 500, summary |-> UNDEF]
    /\ srvEvents' = Append(srvEvents, "response")
    /\ srvPc' = "responded"
    /\ UNCHANGED <<srvReq, srvVerdict, srvCount,
                   constitutional_log, risk_assessments, consent_records>>
    /\ UNCHANGED <<gateVars, consentVars, sealVars, chainVars, startVars, advisorVars>>

ConsentRequest == Accepting /\ \E body \in ConsentBodies : ConsentGenerate(body)

AssessRequest == Accepting /\ \E body \in AssessBodies : AssessGates(body)

NextServer ==
    \/ ConsentRequest
    \/ AssessRequest
    \/ AssessLogVerdict
    \/ AssessBlocked
    \/ AssessInsert
    \/ AssessRespond
    \/ AssessError

SpecServer == InitServer /\ [][NextServer]_vars

(***************************************************************************)
(* The transport seal: responses are sealed through the Express wrapper or *)
(* the Workers wrapper, each call running to completion before the next;   *)
(* the order of sealCalls is the interleaving of the callers               *)
(***************************************************************************)
SealPayloads == {PlainObjectData, ArrayData, CircularData}

\* the key file may hold a secret key of the wrong length: it loads, and
\* nacl.sign.detached rejects it at every seal
InitSeal ==
    /\ gatePhase = "idle"
    /\ gateCtx = NoCtx
    /\ gateVerdict = NoVerdict
    /\ consentPhase = "input"
    /\ consentArgs = <<>>
    /\ consentIds = <<>>
    /\ consentCheck = NoCheck
    /\ ServerUnused
    /\ StartUnused
    /\ AdvisorUnused
    /\ ChainUnused
    /\ keypair \in {[publicKey |-> "pk-1", secretKeyValid |-> v] : v \in BOOLEAN}
    /\ chainPosition = 0
    /\ prevState = GENESIS_HASH(keypair)
    /\ prevPrevState = GENESIS_HASH(keypair)
    /\ clock = 0
    /\ sealCalls = <<>>

ChainState ==
    [chainPosition |-> chainPosition, prevState |-> prevState, prevPrevState |-> prevPrevState]

\* the call is recorded and the module state is what the call left
Called(via, data, headersSent, result) ==
    /\ sealCalls' = Append(sealCalls,
           [via |-> via, data |-> data, headersSent |-> headersSent,
            threw |-> result.threw, error |-> result.error, written |-> result.written,
            headers |-> result.headers, receipt |-> result.receipt])
    /\ chainPosition' = result.chain.chainPosition
    /\ prevState' = result.chain.prevState
    /\ prevPrevState' = result.chain.prevPrevState
    /\ UNCHANGED <<keypair, clock>>
    /\ UNCHANGED <<gateVars, consentVars, serverVars, chainVars, startVars, advisorVars>>

\* a route calls res.json(data) on a response whose headers are, or are not,
\* already sent
KaitiakiJson(data, headersSent, rand) ==
    /\ Len(sealCalls) < MaxSeals
    /\ Called("express", data, headersSent,
              kaitiakiJson(data, "POST /api/v1/assess", headersSent, clock, rand,
                           ChainState, keypair))

\* a Worker calls kaitiakiWrapResponse(data)
KaitiakiWrapResponse(data, rand) ==
    /\ Len(sealCalls) < MaxSeals
    /\ Called("worker", data, FALSE,
              kaitiakiWrapResponse(data, "cloudflare-worker", clock, rand, ChainState, keypair))

\* a millisecond passes
Tick ==
    /\ clock < MaxClock
    /\ clock' = clock + 1
    /\ UNCHANGED <<keypair, chainPosition, prevState, prevPrevState, sealCalls>>
    /\ UNCHANGED <<gateVars, consentVars, serverVars, chainVars, startVars, advisorVars>>

ExpressResponse ==
    /\ Len(sealCalls) < MaxSeals
    /\ \E data \in SealPayloads, headersSent \in BOOLEAN, rand \in RandomHex :
           KaitiakiJson(data, headersSent, rand)

WorkerResponse ==
    /\ Len(sealCalls) < MaxSeals
    /\ \E data \in SealPayloads, rand \in RandomHex : KaitiakiWrapResponse(data, rand)

NextSeal ==
    \/ ExpressResponse
    \/ WorkerResponse
    \/ Tick

SpecSeal == InitSeal /\ [][NextSeal]_vars

(***************************************************************************)
(* Process lifecycle: the middleware module is loaded at every start of    *)
(* the process; the key file outlives the process, the chain state does    *)
(* not.  Between two runs the key file can be lost (an ephemeral           *)
(* filesystem, a redeploy) or damaged.                                     *)
(***************************************************************************)
\* nacl.sign.keyPair(): a fresh keypair
GeneratedKeypairs == {[publicKey |-> k, secretKeyValid |-> TRUE] : k \in {"pk-2", "pk-3"}}

KeyFilesAtFirstStart == {MissingKeyFile, UnreadableKeyFile, StoredKeyFile(LoadedKeypair)}

\* what one module load found and set up
StartRecord(file, loaded) ==
    [found          |-> file.state,
     keypair        |-> loaded.keypair,
     chain_position |-> 0,
     genesis_hash   |-> GENESIS_HASH(loaded.keypair),
     logged         |-> loaded.logged]

\* the state after the first load of the module
InitStart ==
    /\ GateUnused
    /\ ConsentUnused
    /\ ServerUnused
    /\ ChainUnused
    /\ AdvisorUnused
    /\ \E file \in KeyFilesAtFirstStart, generated \in GeneratedKeypairs, writable \in BOOLEAN :
           LET loaded == loadOrCreateKeypair(file, generated, writable)
           IN  /\ keypair = loaded.keypair
               /\ keyFile = loaded.file
               /\ prevState = GENESIS_HASH(loaded.keypair)
               /\ prevPrevState = GENESIS_HASH(loaded.keypair)
               /\ starts = <<StartRecord(file, loaded)>>
               /\ console = loaded.logged
    /\ chainPosition = 0
    /\ clock = 0
    /\ sealCalls = <<>>
    /\ running = TRUE

\* module load: const keypair = loadOrCreateKeypair(); GENESIS_HASH;
\* let chainPosition = 0; let prevState = prevPrevState = GENESIS_HASH
ModuleLoad(generated, writable) ==
    LET loaded == loadOrCreateKeypair(keyFile, generated, writable)
    IN  /\ ~running
        /\ Len(starts) < MaxStarts
        /\ running' = TRUE
        /\ keypair' = loaded.keypair
        /\ keyFile' = loaded.file
        /\ chainPosition' = 0
        /\ prevState' = GENESIS_HASH(loaded.keypair)
        /\ prevPrevState' = GENESIS_HASH(loaded.keypair)
        /\ sealCalls' = <<>>
        /\ starts' = Append(starts, StartRecord(keyFile, loaded))
        /\ console' = console \o loaded.logged
        /\ UNCHANGED clock
        /\ UNCHANGED <<gateVars, consentVars, serverVars, chainVars, advisorVars>>

ProcessStart ==
    /\ ~running
    /\ \E generated \in GeneratedKeypairs, writable \in BOOLEAN : ModuleLoad(generated, writable)

\* the process ends; what it held in memory is gone with it
ProcessExit ==
    /\ running
    /\ running' = FALSE
    /\ UNCHANGED <<keyFile, starts, console>>
    /\ UNCHANGED <<gateVars, consentVars, serverVars, sealVars, chainVars, advisorVars>>

\* while the process is down the key file is deleted or damaged
KeyFileLost ==
    /\ ~running
    /\ keyFile.state = "stored"
    /\ keyFile' \in {MissingKeyFile, UnreadableKeyFile}
    /\ UNCHANGED <<running, starts, console>>
    /\ UNCHANGED <<gateVars, consentVars, serverVars, sealVars, chainVars, advisorVars>>

\* a route answers through res.json while the process is up; the catch block
\* of kaitiakiJson is the only place of the module that writes to the console
SealedResponse ==
    /\ running
    /\ Len(sealCalls) < MaxSealsPerStart
    /\ \E data \in {PlainObjectData, CircularData} :
           LET result == kaitiakiJson(data, "POST /api/v1/assess", FALSE, clock, "0000",
                                      ChainState, keypair)
           IN  /\ sealCalls' = Append(sealCalls,
                      [via |-> "express", data |-> data, headersSent |-> FALSE,
                       threw |-> result.threw, error |-> result.error,
                       written |-> result.written, headers |-> result.headers,
                       receipt |-> result.receipt])
               /\ chainPosition' = result.chain.chainPosition
               /\ prevState' = result.chain.prevState
               /\ prevPrevState' = result.chain.prevPrevState
               /\ console' = IF result.error = "" THEN console
                             ELSE Append(console,
                                      <<"[kaitiaki-middleware] seal error (non-fatal):",
                                        result.error>>)
    /\ UNCHANGED <<keypair, clock, running, keyFile, starts>>
    /\ UNCHANGED <<gateVars, consentVars, serverVars, chainVars, advisorVars>>

NextStart ==
    \/ ProcessStart
    \/ ProcessExit
    \/ KeyFileLost
    \/ SealedResponse

SpecStart == InitStart /\ [][NextStart]_vars

(***************************************************************************)
(* An advisor session: chat turns, consent generations and the end of the  *)
(* session, in any order.  A message is given by what the field extraction *)
(* returned for it.                                                        *)
(***************************************************************************)
ExtractionTags == DOMAIN fieldMap \cup {"STOP_SIGNAL"}

\* the extraction result with the given tags; every other tag is absent
Extracted(tags) ==
    [tag \in ExtractionTags |-> IF tag \in DOMAIN tags THEN tags[tag] ELSE UNDEF]

Messages ==
    { Extracted([COHORT |-> Str(<<"nz-smokers">>), SCOPE |-> Str(<<"population_mortality">>),
                 CLINICIAN_ID |-> Str(<<"clin-1">>)]),
      Extracted([COHORT |-> Str(<<"au-smokers">>)]),
      Extracted([COHORT |-> Str(<<>>)]),
      Extracted([SCOPE |-> Str(<<"credit_scoring">>)]),
      Extracted([MODEL_VERSION |-> Str(<<"v1">>)]),
      Extracted([CONFIDENCE |-> Str(<<"1.5">>)]),
      Extracted([CONFIDENCE |-> Str(<<"0.45">>)]),
      Extracted([MODEL_COUNT |-> Str(<<"1">>)]),
      Extracted([POPULATION_SIZE |-> Str(<<"20000">>)]),
      Extracted([DISSENT_FLAG |-> Str(<<"true">>)]),
      Extracted([ASSESSMENT_TYPE |-> Str(<<"racial_profiling">>)]),
      Extracted([STOP_SIGNAL |-> Str(<<"true">>)]) }

InitAdvisor ==
    /\ GateUnused
    /\ ConsentUnused
    /\ RestUnused

TurnsTaken == IF acc = NoSession THEN 0 ELSE acc.turnCount

\* sessions.set(sessionId, acc) and the object handed back to the route
Respond(result) ==
    /\ acc' = result.acc
    /\ advReply' = result.reply

HandleAdvisorTurn(extracted) ==
    /\ TurnsTaken < MaxTurns
    /\ Respond(handleAdvisorTurn(acc, extracted))
    /\ UNCHANGED <<gateVars, consentVars, serverVars, sealVars, chainVars, startVars>>

AdvisorTurn == TurnsTaken < MaxTurns /\ \E extracted \in Messages : HandleAdvisorTurn(extracted)

HandleConsentGeneration ==
    /\ Respond(handleConsentGeneration(acc))
    /\ UNCHANGED <<gateVars, consentVars, serverVars, sealVars, chainVars, startVars>>

\* clearSession(sessionId): sessions.delete(sessionId)
ClearSession ==
    /\ acc # NoSession
    /\ acc' = NoSession
    /\ advReply' = NoReply
    /\ UNCHANGED <<gateVars, consentVars, serverVars, sealVars, chainVars, startVars>>

NextAdvisor ==
    \/ AdvisorTurn
    \/ HandleConsentGeneration
    \/ ClearSession

SpecAdvisor == InitAdvisor /\ [][NextAdvisor]_vars

(***************************************************************************)
(* chainReceipt on every kind of parent reference                          *)
(***************************************************************************)
OwnId == Str(<<"KT-own">>)

ParentId == Str(<<"KT-parent">>)

RootId == Str(<<"KT-root">>)

\* falsy or blank: no parent
AbsentParents == {UNDEF, NULL, Str(<<>>), Str(<<" ">>)}

BareIdParents == {ParentId, Str(<<" ", "KT-parent">>)}

\* parent objects: complete ones, and ones lacking the id, the depth or the root
ParentRecords ==
    {ReceiptObject(id, depth, root) :
        id    \in {ParentId, UNDEF, Str(<<>>)},
        depth \in {Num(0), Num(2), UNDEF, Str(<<"2">>)},
        root  \in {RootId, UNDEF, NULL}}

ParentReferences == AbsentParents \cup BareIdParents \cup ParentRecords

CurrentReceipts ==
    {ReceiptObject(OwnId, UNDEF, UNDEF), ReceiptObject(UNDEF, UNDEF, UNDEF), UNDEF}

InitLink ==
    /\ GateUnused
    /\ ConsentUnused
    /\ ServerUnused
    /\ StartUnused
    /\ AdvisorUnused
    /\ SealUnused
    /\ linkPhase = "input"
    /\ linkArgs \in [currentReceipt : CurrentReceipts, parentReceiptOrId : ParentReferences]
    /\ linkResult = NoLink
    /\ hops = <<>>

ChainReceipt ==
    /\ linkPhase = "input"
    /\ linkResult' = chainReceipt(linkArgs.currentReceipt, linkArgs.parentReceiptOrId)
    /\ linkPhase' = "linked"
    /\ UNCHANGED <<linkArgs, hops>>
    /\ UNCHANGED <<gateVars, consentVars, serverVars, sealVars, startVars, advisorVars>>

NextLink == ChainReceipt

SpecLink == InitLink /\ [][NextLink]_vars

(***************************************************************************)
(* A chain of services: the origin receives a request without a parent,    *)
(* every later service receives the receipt id of the one before it, in    *)
(* the body, in the header or in both, and links its local receipt as the  *)
(* ingest routes do                                                        *)
(***************************************************************************)
\* the request the next service receives from the service that produced sender
ForwardedRequests(sender) ==
    LET id == buildChainHeaders(sender.receipt_id).value
    IN  {[body |-> [parent_receipt_id |-> id],    headers |-> [parent |-> UNDEF]],
         [body |-> [parent_receipt_id |-> UNDEF], headers |-> [parent |-> id]],
         [body |-> [parent_receipt_id |-> id],    headers |-> [parent |-> id]],
         [body |-> [parent_receipt_id |-> Str(<<>>)], headers |-> [parent |-> id]]}

OriginRequest == [body |-> [parent_receipt_id |-> UNDEF], headers |-> [parent |-> UNDEF]]

\* `KT-AB-DD-${Date.now()}-${Math.random()...}` of the k-th service
LocalReceipt(k, rand) == ReceiptObject(Str(<<"KT-AB-DD-", k, "-", rand>>), UNDEF, UNDEF)

InitChain ==
    /\ GateUnused
    /\ ConsentUnused
    /\ ServerUnused
    /\ StartUnused
    /\ AdvisorUnused
    /\ SealUnused
    /\ ChainUnused

\* the ingest route past its gates: extractParentReceipt, local receipt,
\* chainReceipt, response carrying chained_receipt
IngestHop(req, rand) ==
    /\ Len(hops) < MaxHops
    /\ hops' = Append(hops,
           [request |-> req,
            chained_receipt |->
                chainReceipt(LocalReceipt(Len(hops) + 1, rand), extractParentReceipt(req)).value])
    /\ UNCHANGED <<linkPhase, linkArgs, linkResult>>
    /\ UNCHANGED <<gateVars, consentVars, serverVars, sealVars, startVars, advisorVars>>

OriginHop == hops = <<>> /\ \E rand \in RandomHex : IngestHop(OriginRequest, rand)

ForwardHop ==
    /\ hops # <<>>
    /\ Len(hops) < MaxHops
    /\ \E req \in ForwardedRequests(hops[Len(hops)].chained_receipt), rand \in RandomHex :
           IngestHop(req, rand)

NextChain ==
    \/ OriginHop
    \/ ForwardHop

SpecChain == InitChain /\ [][NextChain]_vars

(***************************************************************************)
(* Properties of the gate orchestrator                                     *)
(***************************************************************************)
GateReturned == gatePhase = "returned" /\ ~gateVerdict.threw

\* each evaluator applied alone to the context of the call
GateAlone(name, ctx) ==
    CASE name = "ahimsa"       -> ahimsaGate(ctx)
      [] name = "satya"        -> satyaGate(ctx)
      [] name = "asteya"       -> asteyaGate(ctx)
      [] name = "brahmacharya" -> brahmaacharyaGate(ctx)
      [] name = "aparigraha"   -> aparigrahaGate(ctx)

GateNameSet == {"ahimsa", "satya", "asteya", "brahmacharya", "aparigraha"}

FailingGates(v) == {name \in GateNameSet : ~v.yamas[name].pass}

\* C1: whenever the Boundary (brahmacharya) evaluator fails on the context,
\* the composite score of the verdict is exactly 0 (both the reported 3-decimal
\* score and the unrounded one) whatever the other four gates scored, and the
\* verdict is not a pass.
C1_BoundaryFailureZeroesComposite ==
    (GateReturned /\ ~brahmaacharyaGate(gateCtx).pass) =>
        /\ gateVerdict.constitutional_score = 0
        /\ gateVerdict.receipt_fields.constitutional_score = 0
        /\ ~gateVerdict.pass

\* C1 witness: Boundary is the only failing gate, the other four pass with
\* their scores intact, and the composite is 0.
C1_Witness ==
    /\ GateReturned
    /\ FailingGates(gateVerdict) = {"brahmacharya"}
    /\ gateVerdict.yamas.ahimsa.score = 9500
    /\ gateVerdict.yamas.satya.score = 10000
    /\ gateVerdict.yamas.asteya.score = 9500
    /\ gateVerdict.yamas.aparigraha.score = 9500
    /\ gateVerdict.constitutional_score = 0

\* C2: the overall pass flag is true exactly when blocked_by is empty and the
\* reported 3-decimal constitutional_score is at least 0.60; so one failing
\* evaluator forces pass = false even at a composite of 0.60 or more.
C2_PassIffNoBlockAndThreshold ==
    GateReturned =>
        (gateVerdict.pass <=>
            (gateVerdict.blocked_by = <<>> /\ AtLeast(gateVerdict.constitutional_score, 600)))

\* C2 witness: exactly one evaluator fails, the reported composite is still
\* at least 0.60, and the verdict is a fail.
C2_Witness ==
    /\ GateReturned
    /\ Len(gateVerdict.blocked_by) = 1
    /\ AtLeast(gateVerdict.constitutional_score, 600)
    /\ ~gateVerdict.pass

\* C3: some gate context has zero blocking reasons (all five evaluators pass)
\* and yet an overall fail, its numeric weighted composite having been brought
\* under 0.60 by advisory score reductions alone.  Stated at every returned
\* verdict over the whole context space.
C3_AdvisoryReductionsAloneCanDeny ==
    gatePhase = "returned" =>
        \E c \in GateContexts :
            LET v == runAllGates(c)
            IN  /\ ~v.threw
                /\ v.blocked_by = <<>>
                /\ v.receipt_fields.constitutional_score # NaN
                /\ v.receipt_fields.constitutional_score < 600000
                /\ ~v.pass

\* the context with every advisory reduction applied at once: patient-facing,
\* lowest admissible confidence, no jurisdiction, two models without dissent
MostReducedCtx ==
    [ExampleCtx EXCEPT !.patient_facing = Bool(TRUE),
                       !.confidence = Num(600),
                       !.regulatory_jurisdiction = UNDEF]

\* what the code does instead: a verdict without blocking reasons has a numeric
\* composite of at least 0.7555, or a NaN composite (confidence NaN)
C3_UnblockedCompositeFloor ==
    (GateReturned /\ gateVerdict.blocked_by = <<>>) =>
        \/ gateVerdict.receipt_fields.constitutional_score = NaN
        \/ /\ gateVerdict.receipt_fields.constitutional_score >= 755500
           /\ gateVerdict.pass

\* C4: blocked_by has exactly one entry "<gate>: <reason>" for every failing
\* evaluator, none for a passing one, and the entries are in the order ahimsa
\* (Non-Harm), satya (Truthfulness), asteya (Consent), brahmacharya (Boundary),
\* aparigraha (Diversity).
GateOrder(name) ==
    CASE name = "ahimsa" -> 1 [] name = "satya" -> 2 [] name = "asteya" -> 3
      [] name = "brahmacharya" -> 4 [] name = "aparigraha" -> 5

C4_BlockedByOnePerFailingGateInOrder ==
    GateReturned =>
        LET b == gateVerdict.blocked_by
        IN  /\ \A i \in 1..Len(b) :
                /\ b[i].gate \in GateNameSet
                /\ ~GateAlone(b[i].gate, gateCtx).pass
                /\ b[i].reason = GateAlone(b[i].gate, gateCtx).reason
            /\ \A name \in GateNameSet :
                Cardinality({i \in 1..Len(b) : b[i].gate = name})
                    = IF GateAlone(name, gateCtx).pass THEN 0 ELSE 1
            /\ \A i, j \in 1..Len(b) : i < j => GateOrder(b[i].gate) < GateOrder(b[j].gate)

\* C4 witness: a proper subset of non-adjacent gates fails (satya and
\* aparigraha) and is reported in that order.
C4_Witness ==
    /\ GateReturned
    /\ Len(gateVerdict.blocked_by) = 2
    /\ gateVerdict.blocked_by[1].gate = "satya"
    /\ gateVerdict.blocked_by[2].gate = "aparigraha"

\* C5: for every context object runAllGates never throws and never
\* short-circuits: every call returns a verdict with the five per-gate results
\* (pass, score, reason), each equal to the result of that gate evaluated alone
\* on the context, also when fields are missing or an earlier gate has failed.
C5_AllFiveGatesAlwaysEvaluated ==
    gatePhase = "returned" =>
        /\ ~gateVerdict.threw
        /\ DOMAIN gateVerdict.yamas = GateNameSet
        /\ \A name \in GateNameSet :
               gateVerdict.yamas[name] = yamasEntry(GateAlone(name, gateCtx))

\* what the code does instead: a call returns the five results whenever no
\* field of the context is an object without a primitive value
C5_ReturnsUnlessScopeUnconvertible ==
    gatePhase = "returned" =>
        IF gateCtx.scope.t = "object"
        THEN gateVerdict.threw
        ELSE /\ ~gateVerdict.threw
             /\ DOMAIN gateVerdict.yamas = GateNameSet
             /\ \A name \in GateNameSet :
                    gateVerdict.yamas[name] = yamasEntry(GateAlone(name, gateCtx))

\* C6: in every result of any of the five evaluators, pass = false implies
\* score = 0.0.
C6_FailedGateScoresZero ==
    gatePhase = "returned" =>
        \A name \in GateNameSet :
            LET r == GateAlone(name, gateCtx)
            IN  /\ (~r.threw /\ ~r.pass) => r.score = 0
                /\ ~gateVerdict.threw =>
                       (~gateVerdict.yamas[name].pass => gateVerdict.yamas[name].score = 0)

\* C6 witness: all five evaluators fail on one context.
C6_Witness ==
    /\ GateReturned
    /\ FailingGates(gateVerdict) = GateNameSet

\* C7: when Boundary passes, the composite is 0.25*ahimsa + 0.25*satya +
\* 0.15*asteya + 0.20*brahmacharya + 0.15*aparigraha rounded to three
\* decimals; the example context scores 0.95, 0.825, 0.95, 0.90, 0.72, its
\* composite is 0.874 and it passes.
RoundedWeightedSum(y) ==
    IF \E name \in GateNameSet : y[name].score = NaN
    THEN NaN
    ELSE ( 25 * y.ahimsa.score + 25 * y.satya.score + 15 * y.asteya.score
           + 20 * y.brahmacharya.score + 15 * y.aparigraha.score + 500 ) \div 1000

C7_CompositeIsRoundedWeightedSum ==
    GateReturned =>
        /\ gateVerdict.yamas.brahmacharya.pass =>
               gateVerdict.constitutional_score = RoundedWeightedSum(gateVerdict.yamas)
        /\ gateCtx = ExampleCtx =>
               /\ gateVerdict.yamas.ahimsa.score = 9500
               /\ gateVerdict.yamas.satya.score = 8250
               /\ gateVerdict.yamas.asteya.score = 9500
               /\ gateVerdict.yamas.brahmacharya.score = 9000
               /\ gateVerdict.yamas.aparigraha.score = 7200
               /\ gateVerdict.constitutional_score = 874
               /\ gateVerdict.pass

\* C7 witness: the verdict of the example context has been returned.
C7_Witness == GateReturned /\ gateCtx = ExampleCtx /\ gateVerdict.yamas.brahmacharya.pass

\* C8: for the example context with confidence 0.45 exactly one evaluator,
\* satya (Truthfulness), fails; the composite is still the weighted sum with
\* satya contributing 0.0, which is 0.6565, and the verdict is a fail although
\* the composite is above 0.60.
LowConfidenceCtx == [ExampleCtx EXCEPT !.confidence = Num(450)]

NonEmptyTriple(t) == Len(t.cohort.s) > 0 /\ Len(t.scope.s) > 0 /\ Len(t.clinician_id.s) > 0

\* C9: round trip: for all non-empty cohort g, scope s and clinician_id a,
\* generateConsentRecordId(g, s, a) returns an anchor and
\* validateConsentRecord of that anchor against g, s, a returns valid = true.
C9_RoundTrip ==
    /\ \A k \in 1..Len(consentIds) :
           NonEmptyTriple(consentArgs[k]) => ~consentIds[k].threw
    /\ (consentPhase = "validated" /\ consentCheck.id = consentCheck.args) =>
           /\ ~consentCheck.result.threw
           /\ consentCheck.result.valid

\* C9 witness: an anchor derived from a triple that is not in normal form
\* (padded cohort, upper-case scope) has been validated against that triple.
C9_Witness ==
    /\ consentPhase = "validated"
    /\ consentCheck.id = consentCheck.args
    /\ consentArgs[consentCheck.args].cohort = Str(<<" ", "NZ">>)
    /\ consentArgs[consentCheck.args].scope = Str(<<" ", "POPULATION_MORTALITY">>)
    /\ consentCheck.result.valid

\* the normalised triple: cohort and scope trimmed and lower-cased,
\* clinician_id trimmed with its case preserved
NormalizedTriple(t) ==
    <<toLowerCase(trim(t.cohort.s)), toLowerCase(trim(t.scope.s)), trim(t.clinician_id.s)>>

\* C10: two derived anchors are equal exactly when the normalised triples are
\* equal; hence the anchor does not depend on case or surrounding whitespace of
\* cohort and scope, and does depend on the case of clinician_id.
C10_AnchorsEqualIffNormalizedTriplesEqual ==
    (Len(consentIds) = 2 /\ ~consentIds[1].threw /\ ~consentIds[2].threw) =>
        /\ (consentIds[1].value = consentIds[2].value)
               <=> (NormalizedTriple(consentArgs[1]) = NormalizedTriple(consentArgs[2]))
        /\ (   /\ toLowerCase(trim(consentArgs[1].cohort.s)) = toLowerCase(trim(consentArgs[2].cohort.s))
               /\ toLowerCase(trim(consentArgs[1].scope.s)) = toLowerCase(trim(consentArgs[2].scope.s))
               /\ consentArgs[1].clinician_id = consentArgs[2].clinician_id )
               => consentIds[1].value = consentIds[2].value
        /\ (   /\ consentArgs[1].clinician_id = Str(<<"clin-1">>)
               /\ consentArgs[2].clinician_id = Str(<<"CLIN-1">>) )
               => consentIds[1].value # consentIds[2].value

\* C10 witness: two triples that differ in the raw cohort and in the raw scope
\* have been derived to the same anchor.
C10_Witness ==
    /\ Len(consentIds) = 2
    /\ ~consentIds[1].threw /\ ~consentIds[2].threw
    /\ consentArgs[1].cohort # consentArgs[2].cohort
    /\ consentArgs[1].scope # consentArgs[2].scope
    /\ consentIds[1].value = consentIds[2].value

\* the second triple is the first with cohort and scope exchanged
SwappedPair ==
    /\ Len(consentIds) = 2
    /\ ~consentIds[1].threw /\ ~consentIds[2].threw
    /\ consentArgs[2].cohort = consentArgs[1].scope
    /\ consentArgs[2].scope = consentArgs[1].cohort
    /\ consentArgs[2].clinician_id = consentArgs[1].clinician_id

\* C11 as stated: exchanging cohort and scope gives the same anchor only when
\* the two supplied values are equal: derive(s, g, a) = derive(g, s, a) only
\* when g = s.
C11_SwapCollidesOnlyOnEqualFields ==
    (SwappedPair /\ consentIds[1].value = consentIds[2].value)
        => consentArgs[1].cohort = consentArgs[1].scope

\* C11 as amended: exchanging cohort and scope gives the same anchor exactly
\* when the two values are equal after normalisation (trimmed, lower-cased).
C11_SwapCollidesIffNormalizedFieldsEqual ==
    SwappedPair =>
        ( (consentIds[1].value = consentIds[2].value)
            <=> (toLowerCase(trim(consentArgs[1].cohort.s))
                    = toLowerCase(trim(consentArgs[1].scope.s))) )

\* C11 witness: cohort and scope differ after normalisation, both orders have
\* been derived, and the two anchors differ.
C11_Witness ==
    /\ SwappedPair
    /\ consentArgs[1].cohort = Str(<<"NZ">>)
    /\ consentArgs[1].scope = Str(<<"nz", "nz">>)
    /\ consentIds[1].value # consentIds[2].value

\* an element of the triple is empty or absent
EmptyOrAbsent(v) == v = UNDEF \/ v = Str(<<>>)

\* C12: validateConsentRecord never throws and fails closed: valid = false when
\* the anchor is missing, is not a string, lacks the CR- prefix, when an
\* element of the triple is empty or absent, or when the anchor differs from
\* the anchor recomputed from the triple; valid = true only when the anchor is
\* equal to the recomputed anchor.
C12_ValidateFailsClosedNeverThrows ==
    consentPhase = "checked" =>
        LET a == consentCheck.anchor
            t == consentArgs[1]
            r == consentCheck.result
            recomputed == generateConsentRecordId(t.cohort, t.scope, t.clinician_id)
        IN  /\ ~r.threw
            /\ (~Truthy(a) \/ a.t # "string") => ~r.valid
            /\ (a.t = "string" /\ ~startsWith(a.s, "CR-")) => ~r.valid
            /\ (EmptyOrAbsent(t.cohort) \/ EmptyOrAbsent(t.scope)
                    \/ EmptyOrAbsent(t.clinician_id)) => ~r.valid
            /\ (recomputed.threw \/ recomputed.value # a) => ~r.valid
            /\ r.valid => (~recomputed.threw /\ a = recomputed.value)

\* C12 witness: a genuine anchor with the prefix is checked against a triple
\* whose clinician_id is absent; the answer is valid = false, nothing is thrown.
C12_Witness ==
    /\ consentPhase = "checked"
    /\ consentCheck.anchor \in DerivableAnchors
    /\ consentArgs[1].cohort = Str(<<"nz">>)
    /\ consentArgs[1].scope = Str(<<"population_mortality">>)
    /\ consentArgs[1].clinician_id = UNDEF
    /\ ~consentCheck.result.threw
    /\ ~consentCheck.result.valid

\* position i of q lies inside a digest: after "sha256[" and before its "]"
InDigest(q, i) ==
    \E j \in 1..(i - 1) : q[j] = "sha256[" /\ \A k \in (j + 1)..i : q[k] # "]"

\* the text raw occurs in q as plain text, that is outside every digest
ContainsPlain(q, raw) ==
    /\ Len(raw) > 0
    /\ \E i \in 1..(Len(q) - Len(raw) + 1) :
           SubSeq(q, i, i + Len(raw) - 1) = raw /\ ~InDigest(q, i)

\* C14: the audit summary never includes the clinician_id: it is determined
\* by (consent_record_id, cohort, scope) alone, so two calls whose argument
\* objects differ only in the clinician_id known to the caller return the
\* same string, and the clinician_id does not occur in the string.
C14_SummaryIndependentOfClinician ==
    \A k \in 1..Len(consentIds) :
        /\ ~consentIds[k].threw
        /\ Truthy(consentArgs[k].clinician_id) =>
               ~ContainsPlain(consentIds[k].value.s, consentArgs[k].clinician_id.s)
        /\ \A j \in 1..Len(consentIds) :
               (   /\ consentArgs[j].consent_record_id = consentArgs[k].consent_record_id
                   /\ consentArgs[j].cohort = consentArgs[k].cohort
                   /\ consentArgs[j].scope = consentArgs[k].scope )
               => consentIds[j] = consentIds[k]

\* C14 witness: two calls with the same anchor, cohort and scope and with two
\* different clinician_id values have returned the same summary.
C14_Witness ==
    /\ consentPhase = "summarised"
    /\ consentArgs[1].consent_record_id = ExampleConsentId
    /\ consentArgs[2].consent_record_id = ExampleConsentId
    /\ consentArgs[1].cohort = consentArgs[2].cohort
    /\ consentArgs[1].scope = consentArgs[2].scope
    /\ consentArgs[1].clinician_id = ExampleClinician
    /\ consentArgs[2].clinician_id = Str(<<"CLIN-1">>)
    /\ consentIds[1] = consentIds[2]
    /\ ~consentIds[1].threw

(***************************************************************************)
(* Properties of the server and its store                                  *)
(***************************************************************************)
\* the values held in the text columns of a row: the plain columns, the
\* arguments interpolated into the gate reasons of the stored verdict, and the
\* properties of the stored request body
PlainColumns(row) ==
    {row[c] : c \in DOMAIN row \cap {"consent_record_id", "cohort", "scope",
                                      "clinician_hash", "source"}}
        \cup UNION {{row[c][g].reason.arg : g \in DOMAIN row[c]} :
                       c \in DOMAIN row \cap {"yamas_json"}}
        \cup UNION {{row[c][k] : k \in DOMAIN row[c]} :
                       c \in {d \in DOMAIN row \cap {"payload_json"} : row[d] # NULL}}

StoredRows ==
    {constitutional_log[i] : i \in 1..Len(constitutional_log)}
        \cup {risk_assessments[i] : i \in 1..Len(risk_assessments)}
        \cup {consent_records[i] : i \in 1..Len(consent_records)}

\* C13: after any sequence of consent-generation and assessment requests no
\* row of the three tables holds a raw clinician_id of a request, neither in a
\* column nor inside a stored JSON text; only its hash is persisted.
C13_NoRawClinicianPersisted ==
    \A row \in StoredRows : \A v \in PlainColumns(row) :
        v.t = "string" =>
            \A c \in RequestClinicians : ~ContainsPlain(v.s, c.s)

\* what the code does instead: the tables consent_records and
\* constitutional_log hold no raw clinician_id, and every risk_assessments
\* row holds the clinician_id of its request inside payload_json
C13_OnlyPayloadHoldsRawClinician ==
    /\ \A i \in 1..Len(consent_records) :
           \A v \in PlainColumns(consent_records[i]) :
               v.t = "string" => \A c \in RequestClinicians : ~ContainsPlain(v.s, c.s)
    /\ \A i \in 1..Len(constitutional_log) :
           \A v \in PlainColumns(constitutional_log[i]) :
               v.t = "string" => \A c \in RequestClinicians : ~ContainsPlain(v.s, c.s)
    /\ \A i \in 1..Len(risk_assessments) :
           risk_assessments[i].payload_json.clinician_id \in RequestClinicians

\* the current request is an assessment and its response has been sent
AssessResponded == srvPc = "responded" /\ srvReq.endpoint = "/api/v1/assess"

\* C20: every POST /api/v1/assess request goes through gate evaluation, then
\* one write of the verdict to constitutional_log (pass or fail), then, only
\* if the verdict passed, one write to risk_assessments, then the response; a
\* blocked request writes no action record and no response is sent before
\* the verdict is logged.
C20_AssessStepOrder ==
    /\ AssessResponded =>
           \/ /\ srvEvents = <<"gates", "log", "insert", "response">>
              /\ ~srvVerdict.threw /\ srvVerdict.pass
           \/ /\ srvEvents = <<"gates", "log", "response">>
              /\ ~srvVerdict.threw /\ ~srvVerdict.pass
    /\ (srvReq # NoRequest /\ srvReq.endpoint = "/api/v1/assess") =>
           \A i \in 1..Len(srvEvents) :
               /\ srvEvents[i] = "response" => \E j \in 1..(i - 1) : srvEvents[j] = "log"
               /\ srvEvents[i] = "insert" => srvVerdict.pass

\* what the code does instead: the order holds for every request whose gate
\* evaluation returns a verdict; when runAllGates throws, a response is sent
\* and nothing is logged
C20_AssessStepOrderUnlessGatesThrow ==
    AssessResponded =>
        IF srvVerdict.threw
        THEN srvEvents = <<"gates", "response">> /\ srvResponse.status = 500
        ELSE IF srvVerdict.pass
        THEN srvEvents = <<"gates", "log", "insert", "response">>
        ELSE srvEvents = <<"gates", "log", "response">>

(***************************************************************************)
(* Properties of the transport seal                                        *)
(***************************************************************************)
\* the receipts sealTransport has returned, in the order of the seals
SealReceipts ==
    LET sealed == SelectSeq(sealCalls, LAMBDA c : c.receipt # NoReceipt)
    IN  [i \in 1..Len(sealed) |-> sealed[i].receipt]

\* C15: whatever the order in which the callers' seals run against a fresh
\* chain, the chain position advances by exactly one per seal: the N receipts
\* carry the positions 1..N in order, none twice and none skipped, and
\* chainPosition is N.
C15_PositionsAreOneToN ==
    /\ chainPosition = Len(SealReceipts)
    /\ \A i \in 1..Len(SealReceipts) : SealReceipts[i].posc.chain_position = i
    /\ \A i \in 1..Len(sealCalls) :
           (sealCalls[i].receipt # NoReceipt /\ sealCalls[i].data.kind = "object"
                /\ sealCalls[i].error = "")
               => sealCalls[i].written[1]._kaitiaki.chain_position
                      = sealCalls[i].receipt.posc.chain_position

\* C15 witness: three seals, requested through both wrappers, carry the
\* positions 1, 2, 3 and the counter is 3.
C15_Witness ==
    /\ Len(SealReceipts) = 3
    /\ Len(sealCalls) = 3
    /\ sealCalls[1].via = "express" /\ sealCalls[2].via = "worker"
    /\ sealCalls[3].via = "express"
    /\ SealReceipts[3].posc.chain_position = 3
    /\ chainPosition = 3

\* C16: no two seal events of the process produce the same receipt_id.
C16_ReceiptIdsUnique ==
    \A i, j \in 1..Len(SealReceipts) :
        i # j => SealReceipts[i].receipt_id # SealReceipts[j].receipt_id

\* what the code does instead: two receipts have the same id exactly when
\* they were sealed in the same millisecond with the same two random bytes
C16_ReceiptIdIsTimeAndRandom ==
    \A i, j \in 1..Len(SealReceipts) :
        (SealReceipts[i].receipt_id = SealReceipts[j].receipt_id)
            <=> (   /\ SealReceipts[i].timestamp = SealReceipts[j].timestamp
                    /\ SealReceipts[i].receipt_id[4] = SealReceipts[j].receipt_id[4] )

FullParentRecord(p) ==
    p.t = "object" /\ Truthy(p.receipt_id) /\ p.chain_depth.t = "number"

\* C18: chainReceipt links as follows.  Absent parent: parent_receipt_id =
\* null, chain_depth = 0, chain_root = own receipt_id.  Full parent record:
\* parent_receipt_id = parent.receipt_id, chain_depth = parent.chain_depth + 1,
\* chain_root = parent.chain_root, or parent.receipt_id when the parent has no
\* root.  Bare id string: parent_receipt_id = id, chain_depth = 1,
\* chain_root = id.
C18_ChainReceiptLinks ==
    (linkPhase = "linked" /\ linkArgs.currentReceipt = ReceiptObject(OwnId, UNDEF, UNDEF)) =>
        LET p == linkArgs.parentReceiptOrId
            r == linkResult.value
        IN  /\ ~linkResult.threw
            /\ r.receipt_id = OwnId
            /\ p \in {UNDEF, NULL} =>
                   /\ r.parent_receipt_id = NULL
                   /\ r.chain_depth = Num(0)
                   /\ r.chain_root = OwnId
            /\ FullParentRecord(p) =>
                   /\ r.parent_receipt_id = p.receipt_id
                   /\ r.chain_depth = Num(p.chain_depth.n + 1)
                   /\ r.chain_root = IF p.chain_root \in {UNDEF, NULL}
                                     THEN p.receipt_id ELSE p.chain_root
            /\ (p.t = "string" /\ NonBlankString(p)) =>
                   /\ r.parent_receipt_id = p
                   /\ r.chain_depth = Num(1)
                   /\ r.chain_root = p

\* C18 witness: a full parent at depth 2 with a root has been linked: the
\* result is at depth 3 under the same root.
C18_Witness ==
    /\ linkPhase = "linked"
    /\ linkArgs.currentReceipt = ReceiptObject(OwnId, UNDEF, UNDEF)
    /\ linkArgs.parentReceiptOrId = ReceiptObject(ParentId, Num(2), RootId)
    /\ linkResult.value.chain_depth = Num(3)
    /\ linkResult.value.chain_root = RootId
    /\ linkResult.value.parent_receipt_id = ParentId

\* the chained receipt of the k-th service of the chain
HopReceipt(k) == hops[k].chained_receipt

\* C19: in a chain in which every service forwards its own receipt id and the
\* receiver links with extractParentReceipt and chainReceipt, every receipt's
\* chain_root is the receipt_id of the origin (depth 0) receipt and its
\* chain_depth is its number of hops from the origin.
C19_RootAndDepthEndToEnd ==
    \A k \in 1..Len(hops) :
        /\ HopReceipt(k).chain_root = HopReceipt(1).receipt_id
        /\ HopReceipt(k).chain_depth = Num(k - 1)

\* what the code does instead: every receipt after the origin is at depth 1
\* and its root is the id of the service just before it
C19_EveryLinkIsDepthOne ==
    \A k \in 1..Len(hops) :
        IF k = 1
        THEN /\ HopReceipt(k).parent_receipt_id = NULL
             /\ HopReceipt(k).chain_depth = Num(0)
             /\ HopReceipt(k).chain_root = HopReceipt(k).receipt_id
        ELSE /\ HopReceipt(k).parent_receipt_id = HopReceipt(k - 1).receipt_id
             /\ HopReceipt(k).chain_depth = Num(1)
             /\ HopReceipt(k).chain_root = HopReceipt(k - 1).receipt_id

(***************************************************************************)
(* Properties of the single evaluators                                     *)
(***************************************************************************)
Evaluated(name) == gatePhase = "evaluated" /\ gateVerdict.gate = name

\* a value that is a real number (a number, and not NaN)
IsReal(v) == v.t = "number" /\ ~IsNaN(v)

\* a string with at least one character
NonEmptyString(v) == v.t = "string" /\ v.s # <<>>

ForbiddenCategory(ctx) ==
    ctx.assessment_type \in {Str(<<"genetic_exclusion">>), Str(<<"racial_profiling">>),
                             Str(<<"disability_penalty">>)}

LargePopulation(ctx) == IsReal(ctx.population_size) /\ ctx.population_size.n > 10000

\* C21: the Non-Harm evaluator blocks, with score 0.0, exactly when the
\* category is one of the three forbidden ones or population_size is above
\* 10000 with no equity acknowledgement; exactly 10000 does not block;
\* otherwise it passes with 0.80 when patient_facing and 0.95 when not.
C21_NonHarmBlocksIffForbiddenOrLargeUnacknowledged ==
    Evaluated("ahimsa") =>
        LET r     == gateVerdict.result
            block == \/ ForbiddenCategory(gateCtx)
                     \/ LargePopulation(gateCtx) /\ ~NonEmptyString(gateCtx.equity_flag)
        IN  /\ ~r.threw
            /\ ~r.pass <=> block
            /\ block => r.score = 0
            /\ ~block => r.score = IF gateCtx.patient_facing = Bool(TRUE) THEN 8000 ELSE 9500

\* C21 witness: a population of exactly 10000 without equity acknowledgement
\* has been evaluated and passed with 0.95.
C21_Witness ==
    /\ Evaluated("ahimsa")
    /\ gateCtx.population_size = Num(10000)
    /\ gateCtx.equity_flag = UNDEF
    /\ gateCtx.patient_facing = UNDEF
    /\ gateVerdict.result.pass
    /\ gateVerdict.result.score = 9500

\* a real number in [0, 1], in 1/1000
RealInUnitInterval(v) == IsReal(v) /\ v.n >= 0 /\ v.n <= 1000

\* C23: the Truthfulness evaluator passes exactly when confidence is a real
\* number with 0.60 <= confidence <= 1, data_quality is neither "unknown" nor
\* "poor" and model_version is non-empty; every confidence that is not a real
\* number in [0, 1] is blocked; on pass the score is min(1.0, confidence*1.1).
C23_TruthfulnessPassIffRealConfidence ==
    Evaluated("satya") =>
        LET r  == gateVerdict.result
            c  == gateCtx.confidence
            dq == Default(gateCtx.data_quality, Str(<<"unknown">>))
        IN  /\ r.pass <=> /\ RealInUnitInterval(c)
                          /\ c.n >= 600
                          /\ dq \notin {Str(<<"unknown">>), Str(<<"poor">>)}
                          /\ NonEmptyString(gateCtx.model_version)
            /\ ~RealInUnitInterval(c) => ~r.pass
            /\ r.pass => r.score = (IF c.n * 11 < 10000 THEN c.n * 11 ELSE 10000)

\* what the evaluator does: the claim holds for every confidence but NaN,
\* which is of type number, fails no comparison and passes with score NaN
C23_TruthfulnessPassUnlessNaN ==
    Evaluated("satya") =>
        LET r  == gateVerdict.result
            c  == gateCtx.confidence
            dq == Default(gateCtx.data_quality, Str(<<"unknown">>))
            complete == /\ dq \notin {Str(<<"unknown">>), Str(<<"poor">>)}
                        /\ NonEmptyString(gateCtx.model_version)
        IN  IF IsNaN(c)
            THEN /\ r.pass <=> complete
                 /\ r.pass => r.score = NaN
            ELSE /\ r.pass <=> (RealInUnitInterval(c) /\ c.n >= 600 /\ complete)
                 /\ r.pass => r.score = (IF c.n * 11 < 10000 THEN c.n * 11 ELSE 10000)

\* C24: the Boundary evaluator passes exactly when purpose_scope is one of
\* the six whitelisted literals; jurisdiction never changes pass or fail and
\* only selects the passing score, 0.90 with jurisdiction and 0.70 without.
C24_BoundaryPassIffWhitelisted ==
    Evaluated("brahmacharya") =>
        LET r == gateVerdict.result
        IN  /\ r.pass <=>
                   gateCtx.scope \in
                       {Str(<<"life_insurance_pricing">>), Str(<<"health_insurance_risk">>),
                        Str(<<"reinsurance_modelling">>), Str(<<"population_mortality">>),
                        Str(<<"drug_discovery_integration">>), Str(<<"dr_bot_integration">>)}
            /\ \A j \in {UNDEF, NULL, Str(<<>>), Str(<<"nz">>)} :
                   brahmaacharyaGate([gateCtx EXCEPT !.regulatory_jurisdiction = j]).pass = r.pass
            /\ r.pass => r.score = IF NonEmptyString(gateCtx.regulatory_jurisdiction)
                                   THEN 9000 ELSE 7000

\* C24 witness: a whitelisted scope without jurisdiction has passed with 0.70.
C24_Witness ==
    /\ Evaluated("brahmacharya")
    /\ gateCtx.scope = Str(<<"reinsurance_modelling">>)
    /\ gateCtx.regulatory_jurisdiction = UNDEF
    /\ gateVerdict.result.pass
    /\ gateVerdict.result.score = 7000

DissentAcknowledged(ctx) == ctx.dissent_flag = Bool(TRUE)

\* model_count as the evaluator reads it: 1 when absent
EffectiveModelCount(ctx) == Default(ctx.model_count, Num(1))

\* C25: the Diversity evaluator blocks exactly when model_count < 2 and
\* dissent is not acknowledged; on pass the score is 0.95 when model_count >= 3,
\* otherwise 0.80 when dissent is acknowledged, otherwise 0.72; and 0.72 is
\* returned only for contexts with model_count = 2.
C25_DiversityBlocksAndScores ==
    Evaluated("aparigraha") =>
        LET r  == gateVerdict.result
            mc == EffectiveModelCount(gateCtx)
        IN  /\ ~r.pass <=> (LessThan(mc, 2) /\ ~DissentAcknowledged(gateCtx))
            /\ r.pass => r.score = IF GreaterThan(mc, 2) THEN 9500
                                   ELSE IF DissentAcknowledged(gateCtx) THEN 8000 ELSE 7200
            /\ r.score = 7200 => gateCtx.model_count = Num(2)

\* what the evaluator does: the claim holds whenever model_count is absent,
\* null or a whole number
C25_DiversityOnWholeCounts ==
    (Evaluated("aparigraha") /\ (IsReal(gateCtx.model_count)
                                 \/ gateCtx.model_count \in {UNDEF, NULL})) =>
        LET r  == gateVerdict.result
            mc == EffectiveModelCount(gateCtx)
        IN  /\ ~r.pass <=> (LessThan(mc, 2) /\ ~DissentAcknowledged(gateCtx))
            /\ r.pass => r.score = IF GreaterThan(mc, 2) THEN 9500
                                   ELSE IF DissentAcknowledged(gateCtx) THEN 8000 ELSE 7200
            /\ r.score = 7200 => gateCtx.model_count = Num(2)

(***************************************************************************)
(* Properties of POST /api/v1/assess: the equity acknowledgement           *)
(***************************************************************************)
\* the handler has run the gates on the request and they returned
AssessGated ==
    /\ srvReq # NoRequest
    /\ srvReq.endpoint = "/api/v1/assess"
    /\ srvPc \in {"gated", "logged", "inserted", "responded"}
    /\ ~srvVerdict.threw

\* C22: a POST /api/v1/assess request with population_size > 10000 that
\* supplies a non-empty equity_flag and a non-forbidden assessment type is
\* not blocked by the Non-Harm gate.
C22_EquityFlagReachesNonHarmGate ==
    (/\ AssessGated
     /\ LargePopulation(srvReq.body)
     /\ NonEmptyString(srvReq.body.equity_flag)
     /\ ~ForbiddenCategory(srvReq.body)) =>
        srvVerdict.yamas.ahimsa.pass

\* what the handler does: equity_flag is not among the destructured fields
\* and is not copied into ctx, so every large population is blocked by the
\* Non-Harm gate whatever the request says about equity
C22_LargePopulationAlwaysBlocked ==
    (AssessGated /\ LargePopulation(srvReq.body)) =>
        /\ ~srvVerdict.yamas.ahimsa.pass
        /\ ~srvVerdict.pass

(***************************************************************************)
(* Properties of the chain state                                           *)
(***************************************************************************)
\* the state produced by the k-th seal of the process; genesis before the first
SealState(k) == IF k < 1 THEN GENESIS_HASH(keypair) ELSE SealReceipts[k].posc.state

\* C27: in any sequence of seals within one process, after the k-th seal
\* previous_state is the k-th new state and previous_previous_state the
\* (k-1)-th (genesis for k = 1); the k-th receipt records as previous_state
\* the state produced by seal k-1 (genesis for the first); and the mixer
\* input of seal k is the pair of states produced by seals k-2 and k-1.
C27_ChainStateRollsForward ==
    LET N == Len(SealReceipts)
    IN  /\ prevState = SealState(N)
        /\ prevPrevState = SealState(N - 1)
        /\ \A k \in 1..N :
               /\ SealReceipts[k].posc.previous_state = SealState(k - 1)
               /\ SealReceipts[k].posc.state =
                      sha256(<<SealReceipts[k].helix.artifact_hash,
                               arnoldTransform(SealState(k - 2), SealState(k - 1))>>)

\* C27 witness: three seals have run; the two remembered states are those of
\* the second and the third seal, and they differ from each other and from
\* genesis.
C27_Witness ==
    /\ Len(SealReceipts) = 3
    /\ prevState = SealReceipts[3].posc.state
    /\ prevPrevState = SealReceipts[2].posc.state
    /\ prevState # prevPrevState
    /\ prevPrevState # GENESIS_HASH(keypair)
    /\ SealReceipts[3].posc.previous_state = SealReceipts[2].posc.state

\* the call handed the payload on as it came, with no receipt in the body
\* and none in the headers
DeliveredUnsealed(c) == c.written = <<c.data>> /\ c.headers = <<>>

\* C29: whenever the transport wrapper delivers a payload unsealed, chain
\* position, previous_state and previous_previous_state are the same after
\* the call as before it.
C29_UnsealedDeliveryLeavesChainAlone ==
    [][ (/\ Len(sealCalls') = Len(sealCalls) + 1
         /\ DeliveredUnsealed(sealCalls'[Len(sealCalls')]))
            => UNCHANGED <<chainPosition, prevState, prevPrevState>> ]_vars

\* what the wrappers do: the chain advances in exactly the calls in which
\* sealTransport returned a receipt, delivered or not
C29_ChainAdvancesWheneverSealed ==
    [][ Len(sealCalls') = Len(sealCalls) + 1 =>
            IF sealCalls'[Len(sealCalls')].receipt = NoReceipt
            THEN UNCHANGED <<chainPosition, prevState, prevPrevState>>
            ELSE /\ chainPosition' = chainPosition + 1
                 /\ prevPrevState' = prevState
                 /\ prevState' = sealCalls'[Len(sealCalls')].receipt.posc.state ]_vars

(***************************************************************************)
(* Properties of the key lifecycle                                         *)
(***************************************************************************)
\* C26: when at process start the persisted signing key is missing or
\* unreadable, a new key is generated, genesis_hash is recomputed from the
\* new public key, the chain restarts at position 0, and the discontinuity
\* is surfaced as an explicit event (the start reports it) rather than
\* happening silently.
C26_KeyLossSurfacedAsNewGenesis ==
    \A k \in 1..Len(starts) :
        starts[k].found # "stored" =>
            /\ starts[k].keypair \in GeneratedKeypairs
            /\ starts[k].genesis_hash = GENESIS_HASH(starts[k].keypair)
            /\ starts[k].chain_position = 0
            /\ starts[k].logged # <<>>

\* what the module does: the key is replaced and the chain restarted as
\* described, but no start reports anything, and the console only ever holds
\* seal errors
C26_KeyLossRestartsChainSilently ==
    /\ \A k \in 1..Len(starts) :
           /\ starts[k].logged = <<>>
           /\ starts[k].found # "stored" =>
                  /\ starts[k].keypair \in GeneratedKeypairs
                  /\ starts[k].genesis_hash = GENESIS_HASH(starts[k].keypair)
                  /\ starts[k].chain_position = 0
    /\ \A i \in 1..Len(console) :
           console[i][1] = "[kaitiaki-middleware] seal error (non-fatal):"
    /\ (Len(starts) > 0 /\ running /\ sealCalls = <<>>) =>
           /\ keypair = starts[Len(starts)].keypair
           /\ chainPosition = 0
           /\ prevState = GENESIS_HASH(keypair)
           /\ prevPrevState = GENESIS_HASH(keypair)

(***************************************************************************)
(* Properties of the advisor                                               *)
(***************************************************************************)
\* the last call was a chat turn whose gate simulation returned a verdict
TurnSimulated ==
    /\ advReply # NoReply
    /\ advReply.call = "turn"
    /\ advReply.gateSimulation # NULL

ExplainedGates == {advReply.explanations[i].gate : i \in 1..Len(advReply.explanations)}

SimulatedFailures == {g \in GateNameSet : ~advReply.gateSimulation.gates[g].pass}

\* C28: for every verdict produced by runAllGates on the context of a turn,
\* each failing gate yields at least one remediation text from explainGates.
C28_EveryFailingGateExplained ==
    TurnSimulated => SimulatedFailures \subseteq ExplainedGates

\* what explainGates does: a failing Non-Harm, Consent or Boundary gate is
\* always explained; a failing Diversity gate never is (its score 0.0 is read
\* as 1 by score || 1); a failing Truthfulness gate is not when confidence is
\* 0.60 or more (so above 1), model_version is set and data_quality is one of
\* good, high, excellent
C28_ExplainedExceptDiversityAndRange ==
    TurnSimulated =>
        /\ SimulatedFailures \ {"satya", "aparigraha"} \subseteq ExplainedGates
        /\ "aparigraha" \in SimulatedFailures => "aparigraha" \notin ExplainedGates
        /\ ("satya" \in SimulatedFailures /\ "satya" \notin ExplainedGates) =>
               /\ advReply.fields.confidence.n > 1000
               /\ advReply.fields.model_version # UNDEF
               /\ advReply.fields.data_quality = Str(<<"good">>)

\* C30: in every reachable state of an advisor session, consentGenerated =
\* true implies that the stored consent_record_id validates against the
\* session's current cohort, scope and clinician_id.
C30_GeneratedConsentValidates ==
    (acc # NoSession /\ acc.consentGenerated) =>
        LET v == getFieldValues(acc)
            check == validateConsentRecord(v.consent_record_id, v.cohort, v.scope,
                                           v.clinician_id)
        IN  ~check.threw /\ check.valid

\* what the session does: the record validates when handleConsentGeneration
\* returns it, and consentGenerated once set stays set through every later
\* turn, whatever the turn changes
C30_ValidWhenGenerated ==
    (advReply # NoReply /\ advReply.call = "consent" /\ advReply.error = "") =>
        /\ acc.consentGenerated
        /\ LET v == getFieldValues(acc)
               check == validateConsentRecord(v.consent_record_id, v.cohort, v.scope,
                                              v.clinician_id)
           IN  ~check.threw /\ check.valid /\ v.consent_record_id = advReply.consent_record_id

C30_ConsentFlagNeverWithdrawn ==
    [][ (acc # NoSession /\ acc.consentGenerated /\ acc' # NoSession)
            => acc'.consentGenerated ]_vars

====
